---- MODULE Spec2Model ----
(***************************************************************************)
(* rust-finprim: the generic scalar layer (FloatLike), the root-finding    *)
(* engine (newton_raphson, halley) and the rate-solving layer (irr, xirr). *)
(*                                                                         *)
(* A scalar is modelled as a float-like fixed-point number: the integer n  *)
(* stands for n / One, finite values lie in -MaxV..MaxV, a result beyond   *)
(* that range overflows to an infinity and undefined results are NaN, as   *)
(* for the f32/f64 implementations of FloatLike.                           *)
(***************************************************************************)
EXTENDS Integers, Sequences, FiniteSets, TLC

----------------------------------------------------------------------------
(* FloatLike: the scalar type                                              *)

\* representation of T::one(), i.e. the resolution of the scalar is 1/One
One == 1000
\* T::zero()
Zero == 0
\* T::MAX, the largest finite scalar
MaxV == 1000000
PosInf == MaxV + 1
NegInf == -(MaxV + 1)
NaN == MaxV + 2

IsNaN(a) == a = NaN
IsInf(a) == a = PosInf \/ a = NegInf
IsFinite(a) == (-MaxV) <= a /\ a <= MaxV

\* The arithmetic is written as functions of the values of the operands
\* (f[a, b]), each with an operator of the same name for the callers, so
\* that an operand is evaluated once however often the body refers to it.

\* overflow of a finite computation goes to an infinity
SatF[n \in Int] == IF n > MaxV THEN PosInf ELSE IF n < -MaxV THEN NegInf ELSE n
Sat(n) == SatF[n]

\* integer division truncating toward zero, d # 0
TruncDivF[n \in Int, d \in Int] ==
    LET an == IF n < 0 THEN -n ELSE n
        ad == IF d < 0 THEN -d ELSE d
        q  == an \div ad
    IN IF (n < 0) # (d < 0) THEN -q ELSE q
TruncDiv(n, d) == TruncDivF[n, d]

\* remainder with the sign of the dividend (Rust's % on integers), d # 0
TruncRem(n, d) == TruncDivF[n, d] * (-d) + n

Sgn(a) == IF a < 0 THEN -1 ELSE 1

\* Neg: -a
NegF[a \in Int] == IF IsNaN(a) THEN NaN ELSE -a
Neg(a) == NegF[a]

\* Add: a + b
AddF[a \in Int, b \in Int] ==
    IF IsNaN(a) \/ IsNaN(b) THEN NaN
    ELSE IF IsInf(a) THEN (IF IsInf(b) /\ b # a THEN NaN ELSE a)
    ELSE IF IsInf(b) THEN b
    ELSE Sat(a + b)
Add(a, b) == AddF[a, b]

\* Sub: a - b
Sub(a, b) == AddF[a, NegF[b]]

\* Mul: a * b, truncated to the resolution
MulF[a \in Int, b \in Int] ==
    IF IsNaN(a) \/ IsNaN(b) THEN NaN
    ELSE IF IsInf(a) \/ IsInf(b)
         THEN (IF a = 0 \/ b = 0 THEN NaN
               ELSE IF Sgn(a) = Sgn(b) THEN PosInf ELSE NegInf)
    ELSE LET aa == IF a < 0 THEN -a ELSE a
             ab == IF b < 0 THEN -b ELSE b
             \* aa * ab / One, truncated, without leaving the integer range
             q  == (aa \div One) * ab + ((aa % One) * ab) \div One
         IN Sat(IF (a < 0) # (b < 0) THEN -q ELSE q)
Mul(a, b) == MulF[a, b]

\* Div: a / b, truncated to the resolution; x / 0 is an infinity, 0 / 0 NaN
DivF[a \in Int, b \in Int] ==
    IF IsNaN(a) \/ IsNaN(b) THEN NaN
    ELSE IF IsInf(a)
         THEN (IF IsInf(b) THEN NaN
               ELSE IF Sgn(a) = Sgn(b) THEN PosInf ELSE NegInf)
    ELSE IF IsInf(b) THEN Zero
    ELSE IF b = 0
         THEN (IF a = 0 THEN NaN ELSE IF a > 0 THEN PosInf ELSE NegInf)
    ELSE Sat(TruncDiv(a * One, b))
Div(a, b) == DivF[a, b]

\* PartialOrd: every comparison with NaN is false
LtF[a \in Int, b \in Int] == ~IsNaN(a) /\ ~IsNaN(b) /\ a < b
Lt(a, b) == LtF[a, b]
Gt(a, b) == LtF[b, a]
LeF[a \in Int, b \in Int] == ~IsNaN(a) /\ ~IsNaN(b) /\ a <= b
Le(a, b) == LeF[a, b]
Ge(a, b) == LeF[b, a]

\* abs
AbsF[a \in Int] == IF IsNaN(a) THEN NaN ELSE IF a < 0 THEN -a ELSE a
Abs(a) == AbsF[a]

is_zero(a) == a = Zero

Two == Add(One, One)

\* from_usize / from_u16 / from_i32: integer to scalar
from_int(n) == Sat(n * One)

\* powi: base to a non-negative integer power by repeated multiplication
PowiF[b \in Int, k \in Int] == IF k <= 0 THEN One ELSE Mul(PowiF[b, k - 1], b)
Powi(b, k) == PowiF[b, k]

\* powf(self, n): real-exponent power.  Integral exponents are exact
\* products (negative ones the reciprocal); a fractional exponent of a
\* negative base is NaN and otherwise lies between the two neighbouring
\* integral powers.
powfF[b \in Int, e \in Int] ==
    IF IsNaN(b) \/ IsNaN(e) THEN NaN
    ELSE IF IsInf(e) \/ IsInf(b) THEN (IF e = 0 THEN One ELSE NaN)
    ELSE LET k == IF e >= 0 THEN e \div One ELSE -(((-e) + One - 1) \div One)
             r == e - k * One
             ipow(j) == IF j >= 0 THEN Powi(b, j) ELSE Div(One, Powi(b, -j))
         IN IF r = 0 THEN ipow(k)
            ELSE IF b < 0 THEN NaN
            ELSE Add(ipow(k), Mul(Sub(ipow(k + 1), ipow(k)), r))
powf(b, e) == powfF[b, e]

\* the literal 0.5
Half == One \div 2

\* floor, ceil: the neighbouring integral values; NaN and the infinities stay
floorF[a \in Int] == IF IsFinite(a) THEN (a \div One) * One ELSE a
floor(a) == floorF[a]
ceilF[a \in Int] == IF IsFinite(a) THEN -(((-a) \div One) * One) ELSE a
ceil(a) == ceilF[a]

\* round: to the nearest integral value, halves away from zero
roundF[a \in Int] ==
    IF ~IsFinite(a) THEN a
    ELSE IF a >= 0 THEN floor(a + Half) ELSE -floor((-a) + Half)
\* variant: round truncates toward negative infinity
round_down(a) == floorF[a]

round(a) == roundF[a]

\* (a as i64) % 2: the cast truncates, saturates at i64::MAX (odd) and
\* i64::MIN (even) and turns NaN into 0; % keeps the sign of the dividend
as_i64_rem2F[a \in Int] ==
    IF IsNaN(a) THEN 0
    ELSE IF a = PosInf THEN 1
    ELSE IF a = NegInf THEN 0
    ELSE TruncRem(TruncDiv(a, One), 2)
as_i64_rem2(a) == as_i64_rem2F[a]

\* RoundingMode
RoundingModes == {"HalfToEven", "HalfAwayFromZero", "HalfTowardZero", "TowardZero",
                  "AwayFromZero", "ToNegativeInfinity", "ToInfinity"}

\* variant: the parity test written as "odd goes up"
half_to_even_odd_up(fl, ce) == IF as_i64_rem2(fl) = 1 THEN ce ELSE fl

\* if floor as i64 % 2 == 0 { floor } else { ceil }
half_to_even(fl, ce) == IF as_i64_rem2(fl) = 0 THEN fl ELSE ce

\* round_with_mode(&self, dp, mode, epsilon) of the f32/f64 implementations
round_with_mode(v, dp, mode, epsilon) ==
    LET factor     == powf(from_int(10), from_int(dp))
        shifted    == Mul(v, factor)
        fl         == floor(shifted)
        shifted_rd == round(shifted)
        diff_floor == Sub(shifted, fl)
        ce         == ceil(shifted)
        not_half   == Gt(Abs(Sub(Abs(diff_floor), Half)), epsilon)
        rounded ==
          CASE mode = "HalfToEven" ->
                 IF not_half THEN shifted_rd ELSE half_to_even(fl, ce)
            [] mode = "HalfTowardZero" ->
                 IF not_half THEN shifted_rd
                 ELSE IF Gt(shifted, Zero) THEN fl ELSE ce
            [] mode = "HalfAwayFromZero" ->
                 IF not_half THEN shifted_rd
                 ELSE IF Gt(shifted, Zero) THEN ce ELSE fl
            [] mode = "TowardZero" -> IF Gt(shifted, Zero) THEN fl ELSE ce
            [] mode = "AwayFromZero" -> IF Gt(shifted, Zero) THEN ce ELSE fl
            [] mode = "ToNegativeInfinity" -> fl
            [] mode = "ToInfinity" -> ce
    IN Div(rounded, factor)

----------------------------------------------------------------------------
(* Decimal: the fixed-point decimal implementation of FloatLike            *)

\* A Decimal is the scalar n / One, i.e. a decimal with DecimalScale places.
DecimalScale == 3

\* variant: HalfTowardZero mapped onto MidpointAwayFromZero
decimal_strategy_swapped(mode) ==
    CASE mode = "HalfToEven" -> "MidpointNearestEven"
      [] mode = "HalfAwayFromZero" -> "MidpointAwayFromZero"
      [] mode = "HalfTowardZero" -> "MidpointAwayFromZero"
      [] mode = "TowardZero" -> "ToZero"
      [] mode = "AwayFromZero" -> "AwayFromZero"
      [] mode = "ToNegativeInfinity" -> "ToNegativeInfinity"
      [] mode = "ToInfinity" -> "ToPositiveInfinity"

\* let rounding_mode = match mode { ... }
decimal_strategy(mode) ==
    CASE mode = "HalfToEven" -> "MidpointNearestEven"
      [] mode = "HalfAwayFromZero" -> "MidpointAwayFromZero"
      [] mode = "HalfTowardZero" -> "MidpointTowardZero"
      [] mode = "TowardZero" -> "ToZero"
      [] mode = "AwayFromZero" -> "AwayFromZero"
      [] mode = "ToNegativeInfinity" -> "ToNegativeInfinity"
      [] mode = "ToInfinity" -> "ToPositiveInfinity"

\* Decimal::round_dp_with_strategy: the digits beyond dp places are dropped
\* and the strategy decides, from the dropped part, the sign and the parity
\* of the last kept digit, whether the magnitude goes up by one unit
round_dp_with_strategy(v, dp, strategy) ==
    IF dp >= DecimalScale THEN v
    ELSE LET unit == 10^(DecimalScale - dp)
             a    == IF v < 0 THEN -v ELSE v
             q    == a \div unit
             r    == a % unit
             up   ==
               CASE strategy = "MidpointNearestEven" ->
                      2 * r > unit \/ (2 * r = unit /\ q % 2 = 1)
                 [] strategy = "MidpointAwayFromZero" -> 2 * r >= unit
                 [] strategy = "MidpointTowardZero" -> 2 * r > unit
                 [] strategy = "ToZero" -> FALSE
                 [] strategy = "AwayFromZero" -> r > 0
                 [] strategy = "ToNegativeInfinity" -> v < 0 /\ r > 0
                 [] strategy = "ToPositiveInfinity" -> v > 0 /\ r > 0
             q2   == IF up THEN q + 1 ELSE q
         IN IF v < 0 THEN -(q2 * unit) ELSE q2 * unit

\* round_with_mode(&self, dp, mode, epsilon) of the Decimal implementation
round_with_mode_decimal(v, dp, mode, epsilon) ==
    round_dp_with_strategy(v, dp, decimal_strategy(mode))

----------------------------------------------------------------------------
(* f32 / f64: binary floating point                                        *)

\* A binary float is the record [m, e] standing for m * 2^e, with a signed
\* significand of SignificandBits bits (24 in f32, 53 in f64, scaled down
\* here) that is kept normalised: 2^(bits-1) <= |m| < 2^bits, and zero is
\* [0, 0].  Every operation rounds its exact result to the nearest float,
\* ties to even.  The values of the model stay far from the exponent range,
\* so there are no infinities and no subnormals here.
SignificandBits == 13

BitLen[a \in Nat] == IF a = 0 THEN 0 ELSE 1 + BitLen[a \div 2]

bzero == [m |-> 0, e |-> 0]

\* m * 2^e rounded to a significand of the given number of bits
bround_bits(m, e, bits) ==
    LET a  == IF m < 0 THEN -m ELSE m
        sg == IF m < 0 THEN -1 ELSE 1
        n  == BitLen[a]
        k  == n - bits
    IN IF a = 0 THEN bzero
       ELSE IF k <= 0 THEN [m |-> m * 2^(-k), e |-> e + k]
       ELSE LET q  == a \div 2^k
                r  == a % 2^k
                up == 2 * r > 2^k \/ (2 * r = 2^k /\ q % 2 = 1)
                q2 == IF up THEN q + 1 ELSE q
            IN IF q2 = 2^bits
               THEN [m |-> sg * 2^(bits - 1), e |-> e + k + 1]
               ELSE [m |-> sg * q2, e |-> e + k]

\* the float nearest to m * 2^e
bnorm(m, e) == bround_bits(m, e, SignificandBits)

\* n as T, for an integer n
bfrom_int(n) == bnorm(n, 0)

\* a / b for b # 0, rounded once to the given number of bits: the quotient
\* of the significands with three guard bits and a sticky bit for the
\* remainder
bdiv_bits(a, b, bits) ==
    LET sh  == SignificandBits + 3
        am  == IF a.m < 0 THEN -a.m ELSE a.m
        bm  == IF b.m < 0 THEN -b.m ELSE b.m
        num == am * 2^sh
        st  == IF num % bm = 0 THEN 0 ELSE 1
        q   == 2 * (num \div bm) + st
        r   == bround_bits(IF (a.m < 0) # (b.m < 0) THEN -q ELSE q,
                           a.e - b.e - sh - 1, bits)
    IN bnorm(r.m, r.e)

\* a decimal literal n / 10^k of type T (n and 10^k exactly representable)
bliteral(n, k) == bdiv_bits(bfrom_int(n), bfrom_int(10^k), SignificandBits)

bneg(a) == [m |-> -a.m, e |-> a.e]
babs(a) == [m |-> IF a.m < 0 THEN -a.m ELSE a.m, e |-> a.e]

\* a + b
badd(a, b) ==
    LET hi == IF a.e >= b.e THEN a ELSE b
        lo == IF a.e >= b.e THEN b ELSE a
        d  == hi.e - lo.e
    IN IF a.m = 0 THEN b
       ELSE IF b.m = 0 THEN a
       ELSE IF d > SignificandBits + 2 THEN hi
       ELSE bnorm(hi.m * 2^d + lo.m, lo.e)

\* a - b
bsub(a, b) == badd(a, bneg(b))

\* a * b
bmul(a, b) == bnorm(a.m * b.m, a.e + b.e)

\* a / b
bdiv(a, b) == bdiv_bits(a, b, SignificandBits)

\* a > b
bgt(a, b) == bsub(a, b).m > 0

\* floor: exact
bfloor(a) ==
    IF a.e >= 0 THEN a
    ELSE IF -a.e >= SignificandBits
         THEN (IF a.m < 0 THEN bfrom_int(-1) ELSE bzero)
    ELSE bfrom_int(a.m \div 2^(-a.e))

\* ceil: exact
bceil(a) == bneg(bfloor(bneg(a)))

\* round: exact, halves away from zero
bround(a) ==
    IF a.e >= 0 THEN a
    ELSE IF -a.e > SignificandBits THEN bzero
    ELSE LET k  == -a.e
             am == IF a.m < 0 THEN -a.m ELSE a.m
             q  == (am + 2^(k - 1)) \div 2^k
         IN bfrom_int(IF a.m < 0 THEN -q ELSE q)

\* (a as i64) % 2 for an integral a
b_as_i64_rem2(a) ==
    IF a.e > 0 THEN 0 ELSE TruncRem(TruncDiv(a.m, 2^(-a.e)), 2)

\* the literal 0.5
bhalf == bliteral(5, 1)

\* variant: the ceiling is taken when the remainder is 1
half_to_even_float_odd_up(fl, ce) == IF b_as_i64_rem2(fl) = 1 THEN ce ELSE fl

\* if floor as i64 % 2 == 0 { floor } else { ceil }
half_to_even_float(fl, ce) == IF b_as_i64_rem2(fl) = 0 THEN fl ELSE ce

\* round_with_mode(&self, dp, mode, epsilon) on binary floats
round_with_mode_float(v, dp, mode, epsilon) ==
    LET factor     == bfrom_int(10^dp)
        shifted    == bmul(v, factor)
        fl         == bfloor(shifted)
        shifted_rd == bround(shifted)
        diff_floor == bsub(shifted, fl)
        ce         == bceil(shifted)
        not_half   == bgt(babs(bsub(babs(diff_floor), bhalf)), epsilon)
        rounded ==
          CASE mode = "HalfToEven" ->
                 IF not_half THEN shifted_rd ELSE half_to_even_float(fl, ce)
            [] mode = "HalfTowardZero" ->
                 IF not_half THEN shifted_rd
                 ELSE IF bgt(shifted, bzero) THEN fl ELSE ce
            [] mode = "HalfAwayFromZero" ->
                 IF not_half THEN shifted_rd
                 ELSE IF bgt(shifted, bzero) THEN ce ELSE fl
            [] mode = "TowardZero" -> IF bgt(shifted, bzero) THEN fl ELSE ce
            [] mode = "AwayFromZero" -> IF bgt(shifted, bzero) THEN ce ELSE fl
            [] mode = "ToNegativeInfinity" -> fl
            [] mode = "ToInfinity" -> ce
    IN bdiv(rounded, factor)

----------------------------------------------------------------------------
(* The external collaborators of the rate-solving layer                    *)

\* Iterator::sum(): fold of + from zero, in sequence order
SumSeqF[s \in Seq(Int)] ==
    IF s = <<>> THEN Zero ELSE Add(SumSeqF[SubSeq(s, 1, Len(s) - 1)], s[Len(s)])
SumSeq(s) == SumSeqF[s]

\* npv(rate, cash_flows): position t (from 0) is the period index
npv(rate, cash_flows) ==
    SumSeq([i \in 1..Len(cash_flows) |->
              Div(cash_flows[i], Powi(Add(One, rate), i - 1))])

\* day-count convention of xnpv and xirr: a 365-day year
DaysPerYear == 365

\* variant: years counted from the epoch of the day offsets
years_from_epoch(date, init_date) == Div(from_int(date), from_int(DaysPerYear))

\* years between an entry and the first entry: (date - init_date) / 365
years_from(date, init_date) == Div(from_int(date - init_date), from_int(DaysPerYear))

\* xnpv(rate, flow_table) for a non-empty table of <<cash flow, date>>
xnpv(rate, flow_table) ==
    LET init_date == flow_table[1][2]
    IN SumSeq([i \in 1..Len(flow_table) |->
                 Div(flow_table[i][1],
                     powf(Add(One, rate), years_from(flow_table[i][2], init_date)))])

\* -cash_flow * n / (rate + 1)^(n + 1)
pv_prime_r(rate, n, cash_flow) ==
    Div(Mul(Neg(cash_flow), n), powf(Add(rate, One), Add(n, One)))

\* cash_flow * n * (n + 1) / (rate + 1)^(n + 2)
pv_prime2_r(rate, n, cash_flow) ==
    Div(Mul(Mul(cash_flow, n), Add(n, One)), powf(Add(rate, One), Add(n, Two)))

----------------------------------------------------------------------------
(* The callables handed to the solvers                                     *)

\* A caller's own callables are polynomials c[1] + c[2] x + c[3] x^2 with
\* their derivatives; irr and xirr build theirs from the schedule.
PolyObj(c) == [kind |-> "poly", c |-> c, flows |-> <<>>, table |-> <<>>]
NpvObj(flows) == [kind |-> "npv", c |-> <<>>, flows |-> flows, table |-> <<>>]
XnpvObj(table) == [kind |-> "xnpv", c |-> <<>>, flows |-> <<>>, table |-> table]

\* irr: f = |x| npv(x, &cash_flows)
irr_f(cash_flows, xx) == npv(xx, cash_flows)

\* irr: f_prime = sum over (i, cf) of pv_prime_r(x, from_usize(i), cf)
irr_f_prime(cash_flows, xx) ==
    SumSeq([i \in 1..Len(cash_flows) |->
              pv_prime_r(xx, from_int(i - 1), cash_flows[i])])

\* irr: f_prime2 = sum over (i, cf) of pv_prime2_r(x, from_usize(i), cf)
irr_f_prime2(cash_flows, xx) ==
    SumSeq([i \in 1..Len(cash_flows) |->
              pv_prime2_r(xx, from_int(i - 1), cash_flows[i])])

\* xirr: f = |x| xnpv(x, &flow_table)
xirr_f(flow_table, xx) == xnpv(xx, flow_table)

\* xirr: f_prime over (cf, date) with n = (date - init_date) / 365
xirr_f_prime(flow_table, xx) ==
    LET init_date == flow_table[1][2]
    IN SumSeq([i \in 1..Len(flow_table) |->
                 pv_prime_r(xx, years_from(flow_table[i][2], init_date),
                            flow_table[i][1])])

\* xirr: f_prime2 over (cf, date) with n = (date - init_date) / 365
xirr_f_prime2(flow_table, xx) ==
    LET init_date == flow_table[1][2]
    IN SumSeq([i \in 1..Len(flow_table) |->
                 pv_prime2_r(xx, years_from(flow_table[i][2], init_date),
                             flow_table[i][1])])

\* f(x)
F(o, xx) ==
    CASE o.kind = "poly" ->
           Add(Add(o.c[1], Mul(o.c[2], xx)), Mul(o.c[3], Mul(xx, xx)))
      [] o.kind = "npv"  -> irr_f(o.flows, xx)
      [] o.kind = "xnpv" -> xirr_f(o.table, xx)

\* f'(x)
FPrime(o, xx) ==
    CASE o.kind = "poly" -> Add(o.c[2], Mul(Mul(Two, o.c[3]), xx))
      [] o.kind = "npv"  -> irr_f_prime(o.flows, xx)
      [] o.kind = "xnpv" -> xirr_f_prime(o.table, xx)

\* f''(x)
FPrime2(o, xx) ==
    CASE o.kind = "poly" -> Mul(Two, o.c[3])
      [] o.kind = "npv"  -> irr_f_prime2(o.flows, xx)
      [] o.kind = "xnpv" -> xirr_f_prime2(o.table, xx)

----------------------------------------------------------------------------
(* Results and options                                                     *)

None == <<>>
Some(v) == <<v>>
unwrap_or(opt, default) == IF opt = None THEN default ELSE opt[1]

NoResult == [tag |-> "None", x |-> Zero, fx |-> Zero]
\* Ok(x)
Ok(xx) == [tag |-> "Ok", x |-> xx, fx |-> Zero]
\* Err(FinPrimError::RootFindingError(RootFindingError::DivideByZero {..}))
DivideByZero(xx, fxx) == [tag |-> "DivideByZero", x |-> xx, fx |-> fxx]
\* Err(FinPrimError::RootFindingError(RootFindingError::FailedToConverge {..}))
FailedToConverge(xx, fxx) == [tag |-> "FailedToConverge", x |-> xx, fx |-> fxx]
\* the call aborted (panic) instead of returning a Result
Panicked == [tag |-> "Panic", x |-> Zero, fx |-> Zero]

\* the variants of RootFindingError and FinPrimError
RootFindingErrorTags == {"FailedToConverge", "DivideByZero", "InvalidBracket"}
FinPrimErrorTags == {"FinPrimError::DivideByZero"} \cup RootFindingErrorTags

----------------------------------------------------------------------------
(* Progressive income tax (Decimal)                                        *)

\* Decimal::min, Decimal::max
min(a, b) == IF Le(a, b) THEN a ELSE b
max(a, b) == IF Ge(a, b) THEN a ELSE b

\* variant: the loop stops once the income is within the current bracket
tax_done_at_bracket(taxable_income, prev_bracket, bracket) ==
    Le(taxable_income, bracket)

\* if taxable_income <= prev_bracket { break; }
tax_done(taxable_income, prev_bracket, bracket) == Le(taxable_income, prev_bracket)

\* the for loop of progressive_tax_unchecked from entry i of the table
RECURSIVE tax_loop(_, _, _, _, _)
tax_loop(taxable_income, rate_table, i, prev_bracket, total_tax) ==
    IF i > Len(rate_table) THEN total_tax
    ELSE LET bracket == rate_table[i][1]
             rate    == rate_table[i][2]
         IN IF tax_done(taxable_income, prev_bracket, bracket) THEN total_tax
            ELSE LET taxable_in_bracket ==
                         max(Sub(min(taxable_income, bracket), prev_bracket), Zero)
                 IN tax_loop(taxable_income, rate_table, i + 1, bracket,
                             Add(total_tax, Mul(taxable_in_bracket, rate)))

\* progressive_tax_unchecked(agi, deductions, rate_table)
progressive_tax_unchecked(agi, deductions, rate_table) ==
    IF Le(agi, deductions) THEN Zero
    ELSE tax_loop(Sub(agi, deductions), rate_table, 1, Zero, Zero)

\* variant: equal neighbouring brackets count as out of order
out_of_order_strict(lo, hi) == Ge(lo, hi)

\* |w| w[0].0 > w[1].0
out_of_order(lo, hi) == Gt(lo, hi)

\* progressive_tax(agi, deductions, rate_table) for a non-empty table
progressive_tax(agi, deductions, rate_table) ==
    IF \E i \in 1..(Len(rate_table) - 1) :
           out_of_order(rate_table[i][1], rate_table[i + 1][1])
    THEN None
    ELSE IF rate_table[Len(rate_table)][1] # MaxV THEN None
    ELSE Some(progressive_tax_unchecked(agi, deductions, rate_table))

----------------------------------------------------------------------------
(* Bounds and inputs of the model                                          *)

\* largest max_iter a caller passes explicitly
MaxIterBound == 3

Polys == { <<-2000, 0, 1000>>,     \* x^2 - 2
           <<-1000, 1000, 0>>,     \* x - 1
           <<1000, 0, 1000>>,      \* x^2 + 1
           <<1000, 0, 0>>,         \* 1
           <<0, 0, 1000>> }        \* x^2
Guesses == {0, 1000}
Tolerances == {-50, 0, 50}
MaxIters == 0..MaxIterBound

Schedules == { <<>>,
               <<-10000>>,
               <<-10000, 11000>>,
               <<-10000, 0, 0>>,
               <<-10000, 5000, 4000, 3000, 2000>> }
FlowTables == { <<>>,
                <<<<-10000, 5>>>>,
                <<<<-10000, 0>>, <<11000, 365>>>>,
                <<<<-10000, 10>>, <<6000, 83>>, <<6000, 375>>>>,
                <<<<-10000, 0>>, <<0, 100>>>> }
OptGuesses == {None, Some(0)}
OptTolerances == {None, Some(50)}
OptMaxIters == {None} \cup {Some(m) : m \in MaxIters}

\* largest number of decimal places a caller rounds to
MaxDp == 2
RoundValues == { 0, 500, -500, 1500, -1500, 2500, -2500, 3500, -3500,
                 2499, -2499, 2501, 3000, -3000, 3005, -3005, 3015, -3015,
                 333, -333, 555, -555, 250, -250, 350, -350, 7 }
RoundEpsilons == {0, 1, 600}
RoundInputs ==
    [fn : {"round_with_mode"}, v : RoundValues, dp : 0..MaxDp,
     mode : RoundingModes, eps : RoundEpsilons]

\* f32/f64 values written as decimal literals with two or three decimals
FloatCents == {-250, -55, -7, 0, 7, 14, 15, 33, 55, 250, 300}
FloatValues == {bliteral(n, 2) : n \in FloatCents}
                 \cup {bliteral(65, 3), bliteral(3005, 3)}
FloatEpsilons == {bzero, bliteral(1, 3)}
FloatRoundInputs ==
    [fn : {"round_with_mode_float"}, v : FloatValues, dp : 0..MaxDp,
     mode : RoundingModes, eps : FloatEpsilons]

\* flow tables of f64 cash flows: <<cash flow, date>>
FloatTable(t) == [i \in 1..Len(t) |-> <<bfrom_int(t[i][1]), t[i][2]>>]
FloatTables ==
    { FloatTable(t) :
        t \in { <<<<-100, 0>>, <<110, 365>>>>,
                <<<<-100, 10>>, <<60, 83>>, <<60, 375>>>>,
                <<<<-100, 0>>, <<50, 359>>, <<40, 400>>, <<30, 1000>>>>,
                <<<<8192, 0>>, <<1, 10>>, <<-8192, 20>>>>,
                <<<<-1000, 0>>, <<333, 365>>, <<777, 730>>>> } }
FloatOptGuesses == {None, Some(bzero), Some(bliteral(1, 1))}
FloatOptTolerances == {None, Some(bliteral(1, 5)), Some(bliteral(1, 2))}
XirrFloatInputs ==
    [fn : {"xirr_float"}, table : FloatTables, guess : FloatOptGuesses,
     tolerance : FloatOptTolerances, max_iter : OptMaxIters]

\* Decimal amounts and rate tables of <<bracket, rate>>; the first table is
\* valid, the others are out of order, open-ended, a single bracket, with
\* equal neighbours, with a negative bracket, and with two infinite ones
TaxAmounts == {0, 5000, 12000, 30000, 100000}
TaxDeductions == {0, 12000, 12500}
RateTables ==
    { << <<10000, 100>>, <<40000, 200>>, <<MaxV, 300>> >>,
      << <<40000, 200>>, <<10000, 100>>, <<MaxV, 300>> >>,
      << <<10000, 100>>, <<40000, 200>> >>,
      << <<MaxV, 250>> >>,
      << <<10000, 100>>, <<10000, 150>>, <<MaxV, 300>> >>,
      << <<-5000, 100>>, <<20000, 200>>, <<MaxV, 300>> >>,
      << <<10000, 100>>, <<MaxV, 200>>, <<MaxV, 300>> >>,
      << <<10000, 100>>, <<MaxV, 200>>, <<40000, 300>> >> }
TaxInputs ==
    [fn : {"progressive_tax", "progressive_tax_unchecked"}, agi : TaxAmounts,
     deductions : TaxDeductions, rate_table : RateTables]

\* longest slice handed to a schedule generator
MaxLife == 3

\* Option<(u32, RoundingStrategy)>
RoundOptions == { None, Some(<<2, "MidpointNearestEven">>), Some(<<0, "ToZero">>),
                  Some(<<1, "MidpointAwayFromZero">>) }
AmortInputs ==
    [fn : {"amort_schedule_into"}, n : 0..MaxLife, rate : {0, 50, 105},
     principal : {100000, 25555}, pmt : {-40123, -36721, 0}, round : RoundOptions]
DbInputs ==
    [fn : {"db_into"}, n : 0..MaxLife, cost : {10000, 9999},
     salvage : {1000, 0, 10000, 12000}, factor : {None, Some(0), Some(1500)},
     round : RoundOptions]
SydInputs ==
    [fn : {"syd_into"}, n : 0..MaxLife, cost : {10000, 9999},
     salvage : {1000, 0, 12000}, round : RoundOptions]

\* defaults of irr and xirr
DefaultMaxIter == 20
\* T::from_f32(1e-5) at the resolution of the scalar
DefaultTolerance == One \div 100000
\* T::from_f32(0.1)
DefaultGuess == One \div 10

----------------------------------------------------------------------------
(* State                                                                   *)

VARIABLES
    api,        \* the public operation in progress or last returned
    args,       \* its arguments: callables/schedule, guess, tolerance, max_iter
    ret,        \* what the public operation returned
    pc,         \* "idle", "loop" (loop head), "eval" (x updated, fx not yet),
                \* "exit" (solver returned), "done"
    method,     \* the solver that runs: "newton_raphson" or "halley"
    obj,        \* the callables f, f_prime, f_prime2 of the solver
    guess, tolerance, max_iter,   \* the solver's parameters
    x, fx,      \* the solver's locals
    iter,       \* position of the for loop over 0..max_iter
    result,     \* what the solver returned
    updates,    \* history: update steps applied to x in this solver call
    visited,    \* history: estimates this solver call has evaluated f at
    hcalls,     \* history: solver invocations made by the public operation
    derived,    \* history: estimates a derivative callable was invoked at
    memo,       \* history: one earlier public call and what it returned
    pin,        \* a call of a pure operation: its name and arguments
    pout        \* ... and its value, once computed

vars == <<api, args, ret, pc, method, obj, guess, tolerance, max_iter,
          x, fx, iter, result, updates, visited, hcalls, derived, memo, pin, pout>>

solverParams == <<method, obj, guess, tolerance, max_iter>>
solverLocals == <<x, fx, iter>>
history == <<updates, visited, hcalls, derived>>
callFrame == <<api, args, ret>>
pureCall == <<pin, pout>>

NoArgs == [obj |-> PolyObj(<<0, 0, 0>>), guess |-> None, tolerance |-> None,
           max_iter |-> None]
MkArgs(o, og, ot, om) == [obj |-> o, guess |-> og, tolerance |-> ot, max_iter |-> om]
NoMemo == [api |-> "none", args |-> NoArgs, ret |-> NoResult]
NoPure == [fn |-> "none"]
Pending == [done |-> FALSE, val |-> Zero]

\* the solver and the rate-solving layer before any call
InitSolver ==
    /\ api = "none" /\ args = NoArgs /\ ret = NoResult
    /\ pc = "idle"
    /\ method = "none" /\ obj = PolyObj(<<0, 0, 0>>)
    /\ guess = Zero /\ tolerance = Zero /\ max_iter = 0
    /\ x = Zero /\ fx = Zero /\ iter = 0
    /\ result = NoResult
    /\ updates = 0 /\ visited = {} /\ hcalls = 0 /\ derived = {}
    /\ memo = NoMemo

Init ==
    /\ InitSolver
    /\ pin = NoPure /\ pout = Pending

----------------------------------------------------------------------------
(* The root-finding engine                                                 *)

\* variant: the test admits |fx| = tolerance
converged_le(fxv, tol) == Le(Abs(fxv), tol)

\* if fx.abs() < tolerance
converged(fxv, tol) == Lt(Abs(fxv), tol)

\* variant: an inclusive range 0..=max_iter
in_budget_incl(i, m) == i <= m

\* for _ in 0..max_iter: the loop body runs while the counter is below max_iter
in_budget(i, m) == i < m

\* let mut x = guess; let mut fx = f(x);
newton_raphson_entry(o, g, t, m) ==
    /\ method' = "newton_raphson" /\ obj' = o
    /\ guess' = g /\ tolerance' = t /\ max_iter' = m
    /\ x' = g /\ fx' = F(o, g) /\ iter' = 0
    /\ result' = NoResult
    /\ updates' = 0 /\ visited' = {g} /\ derived' = {}
    /\ pc' = "loop"

\* variant: the loop counter is not started afresh
halley_entry_stale(o, g, t, m) ==
    /\ method' = "halley" /\ obj' = o
    /\ guess' = g /\ tolerance' = t /\ max_iter' = m
    /\ x' = g /\ fx' = F(o, g) /\ iter' = iter
    /\ result' = NoResult
    /\ updates' = 0 /\ visited' = {g} /\ derived' = {}
    /\ pc' = "loop"

\* let mut x = guess; let mut fx = f(x);
halley_entry(o, g, t, m) ==
    /\ method' = "halley" /\ obj' = o
    /\ guess' = g /\ tolerance' = t /\ max_iter' = m
    /\ x' = g /\ fx' = F(o, g) /\ iter' = 0
    /\ result' = NoResult
    /\ updates' = 0 /\ visited' = {g} /\ derived' = {}
    /\ pc' = "loop"

\* x -= fx / f_prime_x
newton_step(xv, fxv, f_prime_x) == Sub(xv, Div(fxv, f_prime_x))

\* variant: the two terms of the denominator are added
step_halley_sum(f_x, f_prime_x, f_prime2_x) ==
    << Mul(Mul(Two, f_x), f_prime_x),
       Add(Mul(Mul(Two, f_prime_x), f_prime_x), Mul(f_x, f_prime2_x)) >>

\* step_halley: <<numerator, denominator>>
step_halley(f_x, f_prime_x, f_prime2_x) ==
    << Mul(Mul(Two, f_x), f_prime_x),
       Sub(Mul(Mul(Two, f_prime_x), f_prime_x), Mul(f_x, f_prime2_x)) >>

\* the solver returns r to the operation that called it
SolverExit(r) ==
    /\ result' = r
    /\ pc' = "exit"
    /\ UNCHANGED <<callFrame, solverParams, solverLocals, history, memo, pureCall>>

\* the solver returns r after it has invoked the derivative callables at x
SolverExitDerived(r) ==
    /\ result' = r
    /\ pc' = "exit"
    /\ derived' = derived \cup {x}
    /\ UNCHANGED <<callFrame, solverParams, solverLocals, updates, visited, hcalls,
                   memo, pureCall>>

\* newton_raphson: return Ok(x)
NewtonConverged ==
    /\ pc = "loop" /\ method = "newton_raphson"
    /\ in_budget(iter, max_iter)
    /\ converged(fx, tolerance)
    /\ SolverExit(Ok(x))

\* variant: the error reports the derivative in place of the objective
NewtonDivideByZero_fprime ==
    /\ pc = "loop" /\ method = "newton_raphson"
    /\ in_budget(iter, max_iter)
    /\ ~converged(fx, tolerance)
    /\ is_zero(FPrime(obj, x))
    /\ SolverExitDerived(DivideByZero(x, FPrime(obj, x)))

\* newton_raphson: f_prime_x.is_zero() => DivideByZero
NewtonDivideByZero ==
    /\ pc = "loop" /\ method = "newton_raphson"
    /\ in_budget(iter, max_iter)
    /\ ~converged(fx, tolerance)
    /\ is_zero(FPrime(obj, x))
    /\ SolverExitDerived(DivideByZero(x, fx))

\* newton_raphson: x -= fx / f_prime_x;
NewtonUpdate ==
    /\ pc = "loop" /\ method = "newton_raphson"
    /\ in_budget(iter, max_iter)
    /\ ~converged(fx, tolerance)
    /\ ~is_zero(FPrime(obj, x))
    /\ x' = newton_step(x, fx, FPrime(obj, x))
    /\ updates' = updates + 1
    /\ derived' = derived \cup {x}
    /\ pc' = "eval"
    /\ UNCHANGED <<callFrame, solverParams, fx, iter, result, visited, hcalls,
                   memo, pureCall>>

\* variant: fx is not re-evaluated after the update
NewtonEval_stale ==
    /\ pc = "eval" /\ method = "newton_raphson"
    /\ fx' = fx
    /\ visited' = visited \cup {x}
    /\ iter' = iter + 1
    /\ pc' = "loop"
    /\ UNCHANGED <<callFrame, solverParams, x, result, updates, hcalls, derived,
                   memo, pureCall>>

\* newton_raphson: fx = f(x); and the end of the loop body
NewtonEval ==
    /\ pc = "eval" /\ method = "newton_raphson"
    /\ fx' = F(obj, x)
    /\ visited' = visited \cup {x}
    /\ iter' = iter + 1
    /\ pc' = "loop"
    /\ UNCHANGED <<callFrame, solverParams, x, result, updates, hcalls, derived,
                   memo, pureCall>>

\* newton_raphson: the loop is over => FailedToConverge
NewtonExhausted ==
    /\ pc = "loop" /\ method = "newton_raphson"
    /\ ~in_budget(iter, max_iter)
    /\ SolverExit(FailedToConverge(x, fx))

\* halley: return Ok(x)
HalleyConverged ==
    /\ pc = "loop" /\ method = "halley"
    /\ in_budget(iter, max_iter)
    /\ converged(fx, tolerance)
    /\ SolverExit(Ok(x))

\* variant: the denominator is tested before the convergence test
HalleyDivideByZero_unguarded ==
    /\ pc = "loop" /\ method = "halley"
    /\ in_budget(iter, max_iter)
    /\ is_zero(step_halley(fx, FPrime(obj, x), FPrime2(obj, x))[2])
    /\ SolverExitDerived(DivideByZero(x, fx))

\* variant: the first derivative is tested, as in newton_raphson
HalleyDivideByZero_fprime ==
    /\ pc = "loop" /\ method = "halley"
    /\ in_budget(iter, max_iter)
    /\ ~converged(fx, tolerance)
    /\ is_zero(FPrime(obj, x))
    /\ SolverExitDerived(DivideByZero(x, fx))

\* halley: denominator.is_zero() => DivideByZero
HalleyDivideByZero ==
    /\ pc = "loop" /\ method = "halley"
    /\ in_budget(iter, max_iter)
    /\ ~converged(fx, tolerance)
    /\ is_zero(step_halley(fx, FPrime(obj, x), FPrime2(obj, x))[2])
    /\ SolverExitDerived(DivideByZero(x, fx))

\* halley: x -= numerator / denominator;
HalleyUpdate ==
    /\ pc = "loop" /\ method = "halley"
    /\ in_budget(iter, max_iter)
    /\ ~converged(fx, tolerance)
    /\ LET nd == step_halley(fx, FPrime(obj, x), FPrime2(obj, x))
       IN /\ ~is_zero(nd[2])
          /\ x' = Sub(x, Div(nd[1], nd[2]))
    /\ updates' = updates + 1
    /\ derived' = derived \cup {x}
    /\ pc' = "eval"
    /\ UNCHANGED <<callFrame, solverParams, fx, iter, result, visited, hcalls,
                   memo, pureCall>>

\* halley: fx = f(x); and the end of the loop body
HalleyEval ==
    /\ pc = "eval" /\ method = "halley"
    /\ fx' = F(obj, x)
    /\ visited' = visited \cup {x}
    /\ iter' = iter + 1
    /\ pc' = "loop"
    /\ UNCHANGED <<callFrame, solverParams, x, result, updates, hcalls, derived,
                   memo, pureCall>>

\* variant: the exhausted budget is reported with the reserved variant
HalleyExhausted_bracket ==
    /\ pc = "loop" /\ method = "halley"
    /\ ~in_budget(iter, max_iter)
    /\ SolverExit([tag |-> "InvalidBracket", x |-> x, fx |-> fx])

\* variant: the error reports the guess in place of the last estimate
HalleyExhausted_guess ==
    /\ pc = "loop" /\ method = "halley"
    /\ ~in_budget(iter, max_iter)
    /\ SolverExit(FailedToConverge(guess, fx))

\* halley: the loop is over => FailedToConverge
HalleyExhausted ==
    /\ pc = "loop" /\ method = "halley"
    /\ ~in_budget(iter, max_iter)
    /\ SolverExit(FailedToConverge(x, fx))

\* xnpv aborts at flow_table.first().unwrap() when the table is empty
callable_panics(o) == o.kind = "xnpv" /\ o.table = <<>>

\* halley as a function: the loop from estimate xv with n iterations left
RECURSIVE halley_loop(_, _, _, _, _)
halley_loop(o, xv, fxv, t, n) ==
    IF n = 0 THEN FailedToConverge(xv, fxv)
    ELSE IF converged(fxv, t) THEN Ok(xv)
    ELSE LET nd == step_halley(fxv, FPrime(o, xv), FPrime2(o, xv))
         IN IF is_zero(nd[2]) THEN DivideByZero(xv, fxv)
            ELSE LET nx == Sub(xv, Div(nd[1], nd[2]))
                 IN halley_loop(o, nx, F(o, nx), t, n - 1)

\* halley(guess, f, f_prime, f_prime2, tolerance, max_iter)
halley(g, o, t, m) ==
    IF callable_panics(o) THEN Panicked ELSE halley_loop(o, g, F(o, g), t, m)

\* newton_raphson as a function: the loop from xv with n iterations left
RECURSIVE newton_raphson_loop(_, _, _, _, _)
newton_raphson_loop(o, xv, fxv, t, n) ==
    IF n = 0 THEN FailedToConverge(xv, fxv)
    ELSE IF converged(fxv, t) THEN Ok(xv)
    ELSE LET f_prime_x == FPrime(o, xv)
         IN IF is_zero(f_prime_x) THEN DivideByZero(xv, fxv)
            ELSE LET nx == newton_step(xv, fxv, f_prime_x)
                 IN newton_raphson_loop(o, nx, F(o, nx), t, n - 1)

\* newton_raphson(guess, f, f_prime, tolerance, max_iter)
newton_raphson(g, o, t, m) ==
    IF callable_panics(o) THEN Panicked ELSE newton_raphson_loop(o, g, F(o, g), t, m)

----------------------------------------------------------------------------
(* xirr on f32/f64 values                                                  *)

\* significand width of f32 next to that of T = f64 (24 of 53 bits, scaled
\* down the same way)
F32Bits == 6

\* T::from_f32(n / 10^k): the literal is rounded to an f32 and then widened
bfrom_f32(n, k) == bdiv_bits(bfrom_int(n), bfrom_int(10^k), F32Bits)

bone == bfrom_int(1)
btwo == badd(bone, bone)

\* a < b
blt(a, b) == bsub(a, b).m < 0

\* the integer floor(a)
bint(a) ==
    IF a.e >= 0 THEN a.m * 2^a.e
    ELSE IF -a.e >= SignificandBits THEN (IF a.m < 0 THEN -1 ELSE 0)
    ELSE a.m \div 2^(-a.e)

\* the exact product of a natural number, held as little-endian digits of
\* SignificandBits bits each, and a significand
RECURSIVE limbs_mul(_, _, _)
limbs_mul(L, m, carry) ==
    IF L = <<>> THEN (IF carry = 0 THEN <<>> ELSE <<carry>>)
    ELSE LET p == L[1] * m + carry
         IN <<p % 2^SignificandBits>> \o limbs_mul(Tail(L), m, p \div 2^SignificandBits)

\* m^k, exactly, for m > 0
RECURSIVE limbs_pow(_, _)
limbs_pow(m, k) == IF k = 0 THEN <<1>> ELSE limbs_mul(limbs_pow(m, k - 1), m, 0)

\* base to a non-negative integer power as powf returns it: the exact power
\* rounded once
bpow_rounded(b, k) ==
    IF k = 0 THEN bone
    ELSE IF b.m = 0 THEN bzero
    ELSE LET L  == limbs_pow(IF b.m < 0 THEN -b.m ELSE b.m, k)
             h  == Len(L)
             V  == IF h = 1 THEN L[1] ELSE L[h] * 2^SignificandBits + L[h - 1]
             st == IF \E i \in 1..(h - 2) : L[i] # 0 THEN 1 ELSE 0
             q  == 2 * V + st
             sg == IF b.m < 0 /\ k % 2 = 1 THEN -1 ELSE 1
         IN bnorm(sg * q, b.e * k - 1 +
                          (IF h = 1 THEN 0 ELSE SignificandBits * (h - 2)))

\* powf(self, n): 1 for the base 1 and for the exponent 0, the rounded
\* power for an integral exponent (its reciprocal for a negative one) and
\* a value between the neighbouring integral powers for a fractional one
bpowf(b, y) ==
    IF y.m = 0 \/ b = bone THEN bone
    ELSE LET fl == bfloor(y)
             k  == bint(fl)
             r  == bsub(y, fl)
             ipow(j) == IF j >= 0 THEN bpow_rounded(b, j)
                        ELSE bdiv(bone, bpow_rounded(b, -j))
         IN IF r.m = 0 THEN ipow(k)
            ELSE badd(ipow(k), bmul(bsub(ipow(k + 1), ipow(k)), r))

\* Iterator::sum(): fold of + from zero, in sequence order, each partial
\* sum rounded
RECURSIVE bsum(_)
bsum(s) ==
    IF s = <<>> THEN bzero ELSE badd(bsum(SubSeq(s, 1, Len(s) - 1)), s[Len(s)])

\* T::from_i32(date - init_date) / T::from_u16(365)
byears_from(date, init_date) ==
    bdiv(bfrom_int(date - init_date), bfrom_int(DaysPerYear))

\* xnpv(rate, flow_table) for a non-empty table of <<cash flow, date>>
xnpv_float(rate, flow_table) ==
    LET init_date == flow_table[1][2]
    IN bsum([i \in 1..Len(flow_table) |->
               bdiv(flow_table[i][1],
                    bpowf(badd(bone, rate),
                          byears_from(flow_table[i][2], init_date)))])

\* -cash_flow * n / (rate + 1)^(n + 1)
pv_prime_r_float(rate, n, cash_flow) ==
    bdiv(bmul(bneg(cash_flow), n), bpowf(badd(rate, bone), badd(n, bone)))

\* cash_flow * n * (n + 1) / (rate + 1)^(n + 2)
pv_prime2_r_float(rate, n, cash_flow) ==
    bdiv(bmul(bmul(cash_flow, n), badd(n, bone)),
         bpowf(badd(rate, bone), badd(n, btwo)))

\* xirr: f_prime
xirr_f_prime_float(flow_table, xx) ==
    LET init_date == flow_table[1][2]
    IN bsum([i \in 1..Len(flow_table) |->
               pv_prime_r_float(xx, byears_from(flow_table[i][2], init_date),
                                flow_table[i][1])])

\* xirr: f_prime2
xirr_f_prime2_float(flow_table, xx) ==
    LET init_date == flow_table[1][2]
    IN bsum([i \in 1..Len(flow_table) |->
               pv_prime2_r_float(xx, byears_from(flow_table[i][2], init_date),
                                 flow_table[i][1])])

\* halley on the callables of xirr: the loop from xv with n iterations left
RECURSIVE halley_float_loop(_, _, _, _, _)
halley_float_loop(flow_table, xv, fxv, t, n) ==
    IF n = 0 THEN FailedToConverge(xv, fxv)
    ELSE IF blt(babs(fxv), t) THEN Ok(xv)
    ELSE LET f_prime_x   == xirr_f_prime_float(flow_table, xv)
             f_prime2_x  == xirr_f_prime2_float(flow_table, xv)
             numerator   == bmul(bmul(btwo, fxv), f_prime_x)
             denominator == bsub(bmul(bmul(btwo, f_prime_x), f_prime_x),
                                 bmul(fxv, f_prime2_x))
         IN IF denominator.m = 0 THEN DivideByZero(xv, fxv)
            ELSE LET nx == bsub(xv, bdiv(numerator, denominator))
                 IN halley_float_loop(flow_table, nx, xnpv_float(nx, flow_table),
                                      t, n - 1)

\* xirr(flow_table, guess, tolerance, max_iter) for T = f64
xirr_float(flow_table, og, ot, om) ==
    LET m    == unwrap_or(om, DefaultMaxIter)
        t    == unwrap_or(ot, bfrom_f32(1, 5))
        rate == unwrap_or(og, bfrom_f32(1, 1))
    IN IF flow_table = <<>> THEN Panicked
       ELSE halley_float_loop(flow_table, rate, xnpv_float(rate, flow_table), t, m)

----------------------------------------------------------------------------
(* The public operations                                                   *)

\* every call starts from a fresh frame, whatever ran before
CanCall == pc \in {"idle", "done"}

\* newton_raphson(guess, f, f_prime, tolerance, max_iter)
CallNewtonRaphson(o, g, t, m) ==
    /\ CanCall
    /\ api' = "newton_raphson"
    /\ args' = MkArgs(o, Some(g), Some(t), Some(m))
    /\ ret' = NoResult
    /\ hcalls' = 1
    /\ newton_raphson_entry(o, g, t, m)
    /\ UNCHANGED <<memo, pureCall>>

\* halley(guess, f, f_prime, f_prime2, tolerance, max_iter)
CallHalley(o, g, t, m) ==
    /\ CanCall
    /\ api' = "halley"
    /\ args' = MkArgs(o, Some(g), Some(t), Some(m))
    /\ ret' = NoResult
    /\ hcalls' = 1
    /\ halley_entry(o, g, t, m)
    /\ UNCHANGED <<memo, pureCall>>

\* irr(cash_flows, guess, tolerance, max_iter): defaults, closures, halley
CallIrr(cash_flows, og, ot, om) ==
    /\ CanCall
    /\ api' = "irr"
    /\ args' = MkArgs(NpvObj(cash_flows), og, ot, om)
    /\ ret' = NoResult
    /\ hcalls' = 1
    /\ halley_entry(NpvObj(cash_flows), unwrap_or(og, DefaultGuess),
                    unwrap_or(ot, DefaultTolerance), unwrap_or(om, DefaultMaxIter))
    /\ UNCHANGED <<memo, pureCall>>

\* xirr(flow_table, guess, tolerance, max_iter): flow_table.first().unwrap()
\* aborts on an empty table; otherwise defaults, closures, halley
CallXirr(flow_table, og, ot, om) ==
    /\ CanCall
    /\ api' = "xirr"
    /\ args' = MkArgs(XnpvObj(flow_table), og, ot, om)
    /\ IF flow_table = <<>>
       THEN /\ ret' = Panicked
            /\ pc' = "done"
            /\ hcalls' = 0
            /\ method' = "none" /\ obj' = XnpvObj(flow_table)
            /\ guess' = Zero /\ tolerance' = Zero /\ max_iter' = 0
            /\ x' = Zero /\ fx' = Zero /\ iter' = 0
            /\ result' = NoResult
            /\ updates' = 0 /\ visited' = {} /\ derived' = {}
       ELSE /\ ret' = NoResult
            /\ hcalls' = 1
            /\ halley_entry(XnpvObj(flow_table), unwrap_or(og, DefaultGuess),
                            unwrap_or(ot, DefaultTolerance),
                            unwrap_or(om, DefaultMaxIter))
    /\ UNCHANGED <<memo, pureCall>>

\* the caller of a solver that failed to converge retries: the same solver,
\* callables and tolerance, the failure's last_x as the guess, a budget m
CanResume(solver) ==
    /\ pc = "idle"
    /\ memo.api = solver
    /\ memo.ret.tag = "FailedToConverge"
    /\ memo.args.guess[1] \in Guesses

ResumeNewtonRaphson(m) ==
    /\ CanResume("newton_raphson")
    /\ CallNewtonRaphson(memo.args.obj, memo.ret.x, memo.args.tolerance[1], m)

ResumeHalley(m) ==
    /\ CanResume("halley")
    /\ CallHalley(memo.args.obj, memo.ret.x, memo.args.tolerance[1], m)

\* newton_raphson / halley called directly: the caller receives the result
SolverReturn ==
    /\ pc = "exit" /\ api \in {"newton_raphson", "halley"}
    /\ ret' = result
    /\ pc' = "done"
    /\ UNCHANGED <<api, args, solverParams, solverLocals, result, history, memo, pureCall>>

\* variant: a failure to converge starts a second attempt from last_x
IrrReturn_retry ==
    /\ pc = "exit" /\ api = "irr"
    /\ IF result.tag = "FailedToConverge" /\ hcalls < 2
       THEN /\ iter' = 0 /\ hcalls' = hcalls + 1 /\ result' = NoResult
            /\ updates' = 0
            /\ pc' = "loop"
            /\ UNCHANGED <<callFrame, solverParams, x, fx, visited, derived>>
       ELSE /\ ret' = result /\ pc' = "done"
            /\ UNCHANGED <<api, args, solverParams, solverLocals, result, history>>
    /\ UNCHANGED <<memo, pureCall>>

\* irr: the value of halley(rate, f, f_prime, f_prime2, tolerance, max_iter)
IrrReturn ==
    /\ pc = "exit" /\ api = "irr"
    /\ ret' = result
    /\ pc' = "done"
    /\ UNCHANGED <<api, args, solverParams, solverLocals, result, history, memo, pureCall>>

\* xirr: the value of halley(rate, f, f_prime, f_prime2, tolerance, max_iter)
XirrReturn ==
    /\ pc = "exit" /\ api = "xirr"
    /\ ret' = result
    /\ pc' = "done"
    /\ UNCHANGED <<api, args, solverParams, solverLocals, result, history, memo, pureCall>>

\* an observer keeps the outcome of the call that just returned; the
\* frame of the call is gone but nothing clears what it left behind
Remember ==
    /\ pc = "done"
    /\ memo' = [api |-> api, args |-> args, ret |-> ret]
    /\ pc' = "idle"
    /\ UNCHANGED <<callFrame, solverParams, solverLocals, result, history, pureCall>>

\* the steps of a running call
Step ==
    \/ NewtonConverged \/ NewtonDivideByZero \/ NewtonUpdate \/ NewtonEval
    \/ NewtonExhausted
    \/ HalleyConverged \/ HalleyDivideByZero \/ HalleyUpdate \/ HalleyEval
    \/ HalleyExhausted
    \/ SolverReturn \/ IrrReturn \/ XirrReturn

Next ==
    \/ \E c \in Polys, g \in Guesses, t \in Tolerances, m \in MaxIters :
          CallNewtonRaphson(PolyObj(c), g, t, m)
    \/ \E c \in Polys, g \in Guesses, t \in Tolerances, m \in MaxIters :
          CallHalley(PolyObj(c), g, t, m)
    \/ \E s \in Schedules, og \in OptGuesses, ot \in OptTolerances, om \in OptMaxIters :
          CallIrr(s, og, ot, om)
    \/ \E ft \in FlowTables, og \in OptGuesses, ot \in OptTolerances, om \in OptMaxIters :
          CallXirr(ft, og, ot, om)
    \/ NewtonConverged \/ NewtonDivideByZero \/ NewtonUpdate \/ NewtonEval
    \/ NewtonExhausted
    \/ HalleyConverged \/ HalleyDivideByZero \/ HalleyUpdate \/ HalleyEval
    \/ HalleyExhausted
    \/ SolverReturn \/ IrrReturn \/ XirrReturn

Spec == Init /\ [][Next]_vars

\* a call that has started runs to its return
LiveSpec == Spec /\ WF_vars(Step)

\* inputs of the runs that are compared with each other
DetPolys == { <<-2000, 0, 1000>>, <<1000, 0, 1000>>, <<1000, 0, 0>> }
DetMaxIters == {1, MaxIterBound}
DetSchedules == { <<-10000, 5000, 4000, 3000, 2000>> }
DetFlowTables == { <<>>, <<<<-10000, 10>>, <<6000, 83>>, <<6000, 375>>>> }
DetOptMaxIters == {None, Some(1)}

NextDet ==
    \/ \E c \in DetPolys, m \in DetMaxIters :
          CallNewtonRaphson(PolyObj(c), 1000, 50, m)
    \/ \E c \in DetPolys, m \in DetMaxIters :
          CallHalley(PolyObj(c), 1000, 50, m)
    \/ \E s \in DetSchedules, om \in DetOptMaxIters :
          CallIrr(s, None, Some(50), om)
    \/ \E ft \in DetFlowTables, om \in DetOptMaxIters :
          CallXirr(ft, None, Some(50), om)
    \/ NewtonConverged \/ NewtonDivideByZero \/ NewtonUpdate \/ NewtonEval
    \/ NewtonExhausted
    \/ HalleyConverged \/ HalleyDivideByZero \/ HalleyUpdate \/ HalleyEval
    \/ HalleyExhausted
    \/ SolverReturn \/ IrrReturn \/ XirrReturn
    \/ Remember

\* calls in any order, some of them remembered
SpecDet == Init /\ [][NextDet]_vars

\* a first call of a solver and, when it failed to converge, the retries
\* of its caller
ResumePolys == { <<-2000, 0, 1000>>, <<1000, 0, 1000>>, <<1000, 0, 0>>,
                 <<-1000, 1000, 0>> }
ResumeTolerances == {0, 50}

NextResume ==
    \/ /\ memo = NoMemo
       /\ \E c \in ResumePolys, g \in Guesses, t \in ResumeTolerances, m \in MaxIters :
             CallNewtonRaphson(PolyObj(c), g, t, m)
    \/ /\ memo = NoMemo
       /\ \E c \in ResumePolys, g \in Guesses, t \in ResumeTolerances, m \in MaxIters :
             CallHalley(PolyObj(c), g, t, m)
    \/ \E m \in MaxIters : ResumeNewtonRaphson(m)
    \/ \E m \in MaxIters : ResumeHalley(m)
    \/ NewtonConverged \/ NewtonDivideByZero \/ NewtonUpdate \/ NewtonEval
    \/ NewtonExhausted
    \/ HalleyConverged \/ HalleyDivideByZero \/ HalleyUpdate \/ HalleyEval
    \/ HalleyExhausted
    \/ SolverReturn
    \/ Remember

SpecResume == Init /\ [][NextResume]_vars

\* schedules with at most the time-zero amount non-zero, and guesses on
\* both sides of the rate -1 at which 1 + rate vanishes
FlatSchedules == { <<-10000>>, <<-10000, 0, 0>>, <<5000, 0>>, <<10, 0>>, <<0, 0>> }
FlatOptGuesses == {None, Some(0), Some(1000), Some(-1000), Some(-2000)}

NextIrrFlat ==
    \/ \E s \in FlatSchedules, og \in FlatOptGuesses, ot \in OptTolerances,
          om \in OptMaxIters :
          CallIrr(s, og, ot, om)
    \/ HalleyConverged \/ HalleyDivideByZero \/ HalleyUpdate \/ HalleyEval
    \/ HalleyExhausted
    \/ IrrReturn

SpecIrrFlat == Init /\ [][NextIrrFlat]_vars

\* value.round_with_mode(dp, mode, epsilon) on the drawn input
RoundWithMode ==
    /\ pin.fn = "round_with_mode" /\ ~pout.done
    /\ pout' = [done |-> TRUE, val |-> round_with_mode(pin.v, pin.dp, pin.mode, pin.eps)]
    /\ UNCHANGED <<callFrame, pc, solverParams, solverLocals, result, history,
                   memo, pin>>

InitRound ==
    /\ InitSolver
    /\ pin \in RoundInputs /\ pout = Pending

NextRound == RoundWithMode

\* one rounding of each input
SpecRound == InitRound /\ [][NextRound]_vars

\* round_with_mode applied to the drawn value and then to its own result
RoundFloat ==
    /\ pin.fn = "round_with_mode_float" /\ pout.n < 2
    /\ LET arg == IF pout.n = 0 THEN pin.v ELSE pout.val
       IN pout' = [n |-> pout.n + 1, arg |-> arg,
                   val |-> round_with_mode_float(arg, pin.dp, pin.mode, pin.eps)]
    /\ UNCHANGED <<callFrame, pc, solverParams, solverLocals, result, history,
                   memo, pin>>

InitRoundFloat ==
    /\ InitSolver
    /\ pin \in FloatRoundInputs /\ pout = [n |-> 0, arg |-> bzero, val |-> bzero]

NextRoundFloat == RoundFloat

\* roundings of f32/f64 values, each result rounded once more
SpecRoundFloat == InitRoundFloat /\ [][NextRoundFloat]_vars

\* value.round_with_mode(dp, mode, epsilon) on the drawn Decimal input
RoundDecimal ==
    /\ pin.fn = "round_with_mode_decimal" /\ ~pout.done
    /\ pout' = [done |-> TRUE,
                val |-> round_with_mode_decimal(pin.v, pin.dp, pin.mode, pin.eps)]
    /\ UNCHANGED <<callFrame, pc, solverParams, solverLocals, result, history,
                   memo, pin>>

InitRoundDecimal ==
    /\ InitSolver
    /\ pin \in [fn : {"round_with_mode_decimal"}, v : RoundValues, dp : 0..MaxDp,
                mode : RoundingModes, eps : RoundEpsilons]
    /\ pout = Pending

NextRoundDecimal == RoundDecimal

\* one rounding of each Decimal input
SpecRoundDecimal == InitRoundDecimal /\ [][NextRoundDecimal]_vars

\* xirr(&flow_table, guess, tolerance, max_iter) on the drawn f64 input
XirrFloat ==
    /\ pin.fn = "xirr_float" /\ ~pout.done
    /\ pout' = [done |-> TRUE,
                val |-> xirr_float(pin.table, pin.guess, pin.tolerance, pin.max_iter)]
    /\ UNCHANGED <<callFrame, pc, solverParams, solverLocals, result, history,
                   memo, pin>>

InitXirrFloat ==
    /\ InitSolver
    /\ pin \in XirrFloatInputs /\ pout = Pending

NextXirrFloat == XirrFloat

\* one call of xirr on each f64 input
SpecXirrFloat == InitXirrFloat /\ [][NextXirrFloat]_vars

\* progressive_tax(agi, deductions, &rate_table) on the drawn input
ProgressiveTax ==
    /\ pin.fn = "progressive_tax" /\ ~pout.done
    /\ pout' = [done |-> TRUE,
                val |-> progressive_tax(pin.agi, pin.deductions, pin.rate_table)]
    /\ UNCHANGED <<callFrame, pc, solverParams, solverLocals, result, history,
                   memo, pin>>

\* progressive_tax_unchecked(agi, deductions, &rate_table) on the drawn input
ProgressiveTaxUnchecked ==
    /\ pin.fn = "progressive_tax_unchecked" /\ ~pout.done
    /\ pout' = [done |-> TRUE,
                val |-> progressive_tax_unchecked(pin.agi, pin.deductions,
                                                  pin.rate_table)]
    /\ UNCHANGED <<callFrame, pc, solverParams, solverLocals, result, history,
                   memo, pin>>

InitTax ==
    /\ InitSolver
    /\ pin \in TaxInputs /\ pout = Pending

NextTax == ProgressiveTax \/ ProgressiveTaxUnchecked

\* one call of a tax function on each input
SpecTax == InitTax /\ [][NextTax]_vars

----------------------------------------------------------------------------
(* Amortization and depreciation schedules (Decimal)                       *)

\* AmortizationPeriod::new(period, principal_payment, interest_payment,
\* remaining_balance)
AmortizationPeriod(period, principal_payment, interest_payment, remaining_balance) ==
    [period |-> period, principal_payment |-> principal_payment,
     interest_payment |-> interest_payment, remaining_balance |-> remaining_balance]

\* DepreciationPeriod { period, depreciation_expense, remaining_book_value }
DepreciationPeriod(period, depreciation_expense, remaining_book_value) ==
    [period |-> period, depreciation_expense |-> depreciation_expense,
     remaining_book_value |-> remaining_book_value]

\* if let Some((dp, rounding)) = round { v.round_dp_with_strategy(dp, rounding) }
round_if(v, rnd) ==
    IF rnd = None THEN v ELSE round_dp_with_strategy(v, rnd[1][1], rnd[1][2])

\* the slice with its last entry replaced
with_last(slice, item) == [slice EXCEPT ![Len(slice)] = item]

\* the call is in its loop and has filled fewer entries than the slice has
InLoop(fn) == pin.fn = fn /\ pout.pc = "loop" /\ Len(pout.slice) < pin.n
\* the loop has run over the whole slice
LoopOver(fn) == pin.fn = fn /\ pout.pc = "loop" /\ Len(pout.slice) = pin.n

ScheduleFrame == <<callFrame, pc, solverParams, solverLocals, result, history,
                   memo, pin>>

\* amort_schedule_into: one iteration of the loop
AmortPeriod ==
    /\ InLoop("amort_schedule_into")
    /\ LET pmt               == Neg(round_if(pin.pmt, pin.round))
           period            == Len(pout.slice)
           interest          == Mul(pout.remaining_balance, pin.rate)
           principal_payment == round_if(Sub(pmt, interest), pin.round)
           interest_payment  == round_if(interest, pin.round)
           remaining_balance == Sub(pout.remaining_balance, principal_payment)
       IN pout' = [pout EXCEPT
                     !.remaining_balance = remaining_balance,
                     !.slice = Append(@, AmortizationPeriod(period + 1,
                                   principal_payment, interest_payment,
                                   remaining_balance))]
    /\ UNCHANGED ScheduleFrame

\* variant: the final balance is zeroed without moving it into the payment
AmortFinish_zero_only ==
    /\ LoopOver("amort_schedule_into")
    /\ IF pin.round = None THEN pout' = [pout EXCEPT !.pc = "done"]
       ELSE IF pout.slice = <<>> THEN pout' = [pout EXCEPT !.pc = "panic"]
       ELSE LET final_payment == pout.slice[Len(pout.slice)]
            IN pout' = [pout EXCEPT
                          !.pc = "done",
                          !.slice = with_last(@,
                              [final_payment EXCEPT !.remaining_balance = Zero])]
    /\ UNCHANGED ScheduleFrame

\* amort_schedule_into: after the loop, with rounding the final payment takes
\* up the remaining balance; slice.last_mut().unwrap() aborts on an empty
\* slice
AmortFinish ==
    /\ LoopOver("amort_schedule_into")
    /\ IF pin.round = None THEN pout' = [pout EXCEPT !.pc = "done"]
       ELSE IF pout.slice = <<>> THEN pout' = [pout EXCEPT !.pc = "panic"]
       ELSE LET final_payment == pout.slice[Len(pout.slice)]
            IN pout' = [pout EXCEPT
                          !.pc = "done",
                          !.slice = with_last(@,
                              [final_payment EXCEPT
                                 !.principal_payment =
                                     Add(@, final_payment.remaining_balance),
                                 !.remaining_balance = Zero])]
    /\ UNCHANGED ScheduleFrame

\* variant: the expense is not capped at the room above salvage
DbPeriod_uncapped ==
    /\ InLoop("db_into")
    /\ LET factor  == unwrap_or(pin.factor, Two)
           life    == pin.n
           period  == Len(pout.slice)
           dep_exp == round_if(Div(Mul(factor, Sub(pin.cost, pout.accum_dep)),
                                   from_int(life)), pin.round)
           remain  == Sub(pout.remain_bv, dep_exp)
       IN pout' = [pout EXCEPT
                     !.accum_dep = Add(@, dep_exp),
                     !.remain_bv = remain,
                     !.slice = Append(@, DepreciationPeriod(period + 1, dep_exp, remain))]
    /\ UNCHANGED ScheduleFrame

\* db_into: one iteration of the loop
DbPeriod ==
    /\ InLoop("db_into")
    /\ LET factor  == unwrap_or(pin.factor, Two)
           life    == pin.n
           period  == Len(pout.slice)
           raw     == round_if(Div(Mul(factor, Sub(pin.cost, pout.accum_dep)),
                                   from_int(life)), pin.round)
           room    == Sub(pout.remain_bv, pin.salvage)
           dep_exp == IF Gt(raw, room) THEN room ELSE raw
           remain  == Sub(pout.remain_bv, dep_exp)
       IN pout' = [pout EXCEPT
                     !.accum_dep = Add(@, dep_exp),
                     !.remain_bv = remain,
                     !.slice = Append(@, DepreciationPeriod(period + 1, dep_exp, remain))]
    /\ UNCHANGED ScheduleFrame

\* syd_into: one iteration of the loop
SydPeriod ==
    /\ InLoop("syd_into")
    /\ LET life         == pin.n
           period       == Len(pout.slice)
           sum_of_years == Div(from_int(life * (life + 1)), Two)
           dep_exp      == round_if(Div(Mul(Sub(pin.cost, pin.salvage),
                                            from_int(life - period)),
                                        sum_of_years), pin.round)
           remain       == Sub(pout.remain_bv, dep_exp)
       IN pout' = [pout EXCEPT
                     !.accum_dep = Add(@, dep_exp),
                     !.remain_bv = remain,
                     !.slice = Append(@, DepreciationPeriod(period + 1, dep_exp, remain))]
    /\ UNCHANGED ScheduleFrame

\* variant: the last book value is set to salvage, the expense is left alone
dep_finish_no_absorb(fn) ==
    /\ LoopOver(fn)
    /\ IF pin.round = None THEN pout' = [pout EXCEPT !.pc = "done"]
       ELSE IF pout.slice = <<>> THEN pout' = [pout EXCEPT !.pc = "panic"]
       ELSE LET last == pout.slice[Len(pout.slice)]
            IN pout' = [pout EXCEPT
                          !.pc = "done",
                          !.slice = with_last(@,
                              [last EXCEPT !.remaining_book_value = pin.salvage])]
    /\ UNCHANGED ScheduleFrame

\* db_into / syd_into: after the loop, with rounding the last period is
\* adjusted to end at the salvage value; slice.last_mut().unwrap() aborts on
\* an empty slice
dep_finish(fn) ==
    /\ LoopOver(fn)
    /\ IF pin.round = None THEN pout' = [pout EXCEPT !.pc = "done"]
       ELSE IF pout.slice = <<>> THEN pout' = [pout EXCEPT !.pc = "panic"]
       ELSE LET last == pout.slice[Len(pout.slice)]
            IN pout' = [pout EXCEPT
                          !.pc = "done",
                          !.slice = with_last(@,
                              [last EXCEPT
                                 !.depreciation_expense =
                                     Add(@, Sub(last.remaining_book_value, pin.salvage)),
                                 !.remaining_book_value = pin.salvage])]
    /\ UNCHANGED ScheduleFrame

DbFinish == dep_finish("db_into")
SydFinish == dep_finish("syd_into")

\* the frame of a schedule call before its loop
ScheduleStart(balance) ==
    [pc |-> "loop", slice |-> <<>>, remaining_balance |-> balance,
     remain_bv |-> balance, accum_dep |-> Zero]

InitSchedule ==
    /\ InitSolver
    /\ pin \in AmortInputs \cup DbInputs \cup SydInputs
    /\ pout = ScheduleStart(IF pin.fn = "amort_schedule_into"
                            THEN pin.principal ELSE pin.cost)

NextSchedule ==
    \/ AmortPeriod \/ AmortFinish
    \/ DbPeriod \/ DbFinish
    \/ SydPeriod \/ SydFinish

\* one call of a schedule generator on each input
SpecSchedule == InitSchedule /\ [][NextSchedule]_vars

----------------------------------------------------------------------------
(* Percentage change (Decimal)                                             *)

\* variant: divides by the beginning value itself
pct_change_signed(beginning_value, ending_value) ==
    IF is_zero(beginning_value) THEN None
    ELSE Some(Div(Sub(ending_value, beginning_value), beginning_value))

\* pct_change(beginning_value, ending_value)
pct_change(beginning_value, ending_value) ==
    IF is_zero(beginning_value) THEN None
    ELSE Some(Div(Sub(ending_value, beginning_value), Abs(beginning_value)))

\* apply_pct_change(value, pct_change)
apply_pct_change(value, pct) == Add(Mul(pct, Abs(value)), value)

PctValues == {0, 1000, -1000, 3000, -3000, 4000, 7000, 50000, 100000, -100000,
              150000, -150000}
PctInputs == [fn : {"pct_change"}, b : PctValues, e : PctValues]

\* pct_change(b, e) on the drawn input
PctChange ==
    /\ pin.fn = "pct_change" /\ pout.n = 0
    /\ pout' = [n |-> 1, pct |-> pct_change(pin.b, pin.e), val |-> Zero]
    /\ UNCHANGED <<callFrame, pc, solverParams, solverLocals, result, history,
                   memo, pin>>

\* apply_pct_change(b, p) on the change just computed
ApplyPctChange ==
    /\ pin.fn = "pct_change" /\ pout.n = 1 /\ pout.pct # None
    /\ pout' = [pout EXCEPT !.n = 2, !.val = apply_pct_change(pin.b, pout.pct[1])]
    /\ UNCHANGED <<callFrame, pc, solverParams, solverLocals, result, history,
                   memo, pin>>

InitPct ==
    /\ InitSolver
    /\ pin \in PctInputs /\ pout = [n |-> 0, pct |-> None, val |-> Zero]

NextPct == PctChange \/ ApplyPctChange

\* the change between two values, then applied to the first
SpecPct == InitPct /\ [][NextPct]_vars

----------------------------------------------------------------------------
(* Derivatives of the net present value on f32/f64 values                  *)

\* variant: the running power starts one power too low
npv_prime_start_one(rate) == bone

\* npv_prime_r: let mut powf_acc = T::one() + rate;
npv_prime_start(rate) == badd(bone, rate)

\* npv_prime2_r: let mut powf_acc = (T::one() + rate) * (T::one() + rate);
npv_prime2_start(rate) == bmul(badd(bone, rate), badd(bone, rate))

\* npv_prime_r: npv_prime += -cf * T::from_usize(t) / powf_acc
npv_prime_term(cf, t, powf_acc) == bdiv(bmul(bneg(cf), bfrom_int(t)), powf_acc)

\* npv_prime2_r: npv_prime2 += cf * t * (t + T::one()) / powf_acc
npv_prime2_term(cf, t, powf_acc) ==
    bdiv(bmul(bmul(cf, bfrom_int(t)), badd(bfrom_int(t), bone)), powf_acc)

\* the sum over t of pv_prime_r(rate, t, cash_flows[t])
pv_prime_sum(rate, cash_flows) ==
    bsum([i \in 1..Len(cash_flows) |->
            pv_prime_r_float(rate, bfrom_int(i - 1), cash_flows[i])])

\* the sum over t of pv_prime2_r(rate, t, cash_flows[t])
pv_prime2_sum(rate, cash_flows) ==
    bsum([i \in 1..Len(cash_flows) |->
            pv_prime2_r_float(rate, bfrom_int(i - 1), cash_flows[i])])

NpvRates == { bzero, bliteral(5, 2), bliteral(7, 2), bliteral(1, 1), bliteral(25, 2),
              bone, bliteral(-5, 1), bfrom_int(-3) }
NpvFlows == { <<>>, <<1000>>, <<0, 1>>, <<0, 0, 1>>, <<1000, 2000, 3000>>,
              <<-10000, 5000, 4000, 3000, 2000>> }
NpvPrimeInputs ==
    [fn : {"npv_prime_r", "npv_prime2_r"}, rate : NpvRates,
     flows : {[i \in 1..Len(s) |-> bfrom_int(s[i])] : s \in NpvFlows}]

\* the locals of npv_prime_r / npv_prime2_r before the loop
NpvPrimeFrame(fn, rate) ==
    [t |-> 0, acc |-> bzero,
     powf_acc |-> IF fn = "npv_prime_r" THEN npv_prime_start(rate)
                  ELSE npv_prime2_start(rate)]

\* npv_prime_r: one iteration of the loop
NpvPrimeStep ==
    /\ pin.fn = "npv_prime_r" /\ pout.t < Len(pin.flows)
    /\ pout' = [t |-> pout.t + 1,
                acc |-> badd(pout.acc,
                             npv_prime_term(pin.flows[pout.t + 1], pout.t, pout.powf_acc)),
                powf_acc |-> bmul(pout.powf_acc, badd(bone, pin.rate))]
    /\ UNCHANGED <<callFrame, pc, solverParams, solverLocals, result, history,
                   memo, pin>>

\* npv_prime2_r: one iteration of the loop
NpvPrime2Step ==
    /\ pin.fn = "npv_prime2_r" /\ pout.t < Len(pin.flows)
    /\ pout' = [t |-> pout.t + 1,
                acc |-> badd(pout.acc,
                             npv_prime2_term(pin.flows[pout.t + 1], pout.t, pout.powf_acc)),
                powf_acc |-> bmul(pout.powf_acc, badd(bone, pin.rate))]
    /\ UNCHANGED <<callFrame, pc, solverParams, solverLocals, result, history,
                   memo, pin>>

InitNpvPrime ==
    /\ InitSolver
    /\ pin \in NpvPrimeInputs /\ pout = NpvPrimeFrame(pin.fn, pin.rate)

NextNpvPrime == NpvPrimeStep \/ NpvPrime2Step

\* one call of npv_prime_r or npv_prime2_r on each input
SpecNpvPrime == InitNpvPrime /\ [][NextNpvPrime]_vars

TypeOK ==
    /\ pc \in {"idle", "loop", "eval", "exit", "done"}
    /\ iter \in 0..DefaultMaxIter
    /\ ret.tag \in {"None", "Ok", "Panic"} \cup FinPrimErrorTags

----------------------------------------------------------------------------
(* Properties of the root-finding engine and the rate-solving layer        *)

Returned == pc \in {"exit", "done"} /\ method # "none"
IsError(r) == r.tag \in {"FailedToConverge", "DivideByZero"}

\* C1: whenever a solver returns Ok(x), |f(x)| < tolerance strictly, so the
\* tolerance of such a call is positive; a rate returned by irr has
\* |npv(rate, cash_flows)| < tolerance.
C1_OkWithinTolerance ==
    /\ (Returned /\ result.tag = "Ok") =>
          /\ Lt(Abs(F(obj, result.x)), tolerance)
          /\ Lt(Zero, tolerance)
    /\ (pc = "done" /\ api = "irr" /\ ret.tag = "Ok") =>
          Lt(Abs(npv(ret.x, args.obj.flows)),
             unwrap_or(args.tolerance, DefaultTolerance))

\* irr has converged on the five-entry schedule after at least one update
C1_Witness ==
    /\ pc = "done" /\ api = "irr" /\ ret.tag = "Ok"
    /\ Len(args.obj.flows) = 5 /\ updates >= 1

\* C2: in every FailedToConverge result, |f| >= tolerance held at every
\* estimate the call visited, the final estimate last_x included.
C2_FailedOnlyOutsideTolerance ==
    (Returned /\ result.tag = "FailedToConverge") =>
        /\ \A v \in visited : ~Lt(Abs(F(obj, v)), tolerance)
        /\ ~Lt(Abs(result.fx), tolerance)

\* C3: a call applies at most max_iter updates; a FailedToConverge result
\* comes after exactly max_iter updates (none for max_iter = 0, where
\* last_x is the guess).
C3_BudgetRespected ==
    /\ updates <= max_iter
    /\ (Returned /\ result.tag = "FailedToConverge") =>
          /\ updates = max_iter
          /\ (max_iter = 0 => result.x = guess)

\* the budget of one iteration is used up by exactly one update
C3_Witness ==
    /\ Returned /\ result.tag = "FailedToConverge"
    /\ max_iter = 1 /\ updates = 1 /\ result.x # guess

\* the precondition shared by the two statements of C4
ZeroDerivativeAtGuess ==
    /\ Returned
    /\ max_iter >= 1
    /\ Ge(Abs(F(obj, guess)), tolerance)
    /\ FPrime(obj, guess) = Zero

\* C4 as stated: for both solvers a zero first derivative at the guess gives
\* DivideByZero{last_x = guess, last_fx = f(guess)}.
C4_ZeroDerivativeIsDivideByZero ==
    ZeroDerivativeAtGuess => result = DivideByZero(guess, F(obj, guess))

\* C4 amended: newton_raphson as stated; halley when, in addition, its
\* denominator 2 f'(guess)^2 - f(guess) f''(guess) is zero.  No update is
\* applied before the error.
C4_ZeroDenominatorIsDivideByZero ==
    (/\ ZeroDerivativeAtGuess
     /\ method = "halley" =>
           Sub(Mul(Mul(Two, FPrime(obj, guess)), FPrime(obj, guess)),
               Mul(F(obj, guess), FPrime2(obj, guess))) = Zero)
    => /\ result = DivideByZero(guess, F(obj, guess))
       /\ updates = 0

\* newton_raphson stopped at a guess with zero derivative and f(guess) # 0
C4_Witness ==
    /\ ZeroDerivativeAtGuess
    /\ method = "newton_raphson"
    /\ result.tag = "DivideByZero" /\ result.fx # Zero

\* C5: at every loop head fx = f(x); every error carries the last estimate
\* and the objective at it.
C5_DiagnosticState ==
    /\ (pc = "loop") => fx = F(obj, x)
    /\ (Returned /\ IsError(result)) =>
          /\ result.x = x
          /\ result.fx = F(obj, result.x)

\* an error reported after the estimate has moved away from the guess
C5_Witness ==
    /\ Returned /\ result.tag = "DivideByZero"
    /\ updates >= 1 /\ result.x # guess

\* C6: a solver call runs at most max_iter loop iterations and ends in one
\* of Ok, RootFindingError::DivideByZero, RootFindingError::FailedToConverge.
C6_Terminates ==
    (pc = "loop") ~>
        (/\ pc = "exit"
         /\ iter <= max_iter
         /\ result.tag \in {"Ok", "DivideByZero", "FailedToConverge"})

\* a call that used its whole budget of more than one iteration and returned
C6_Witness ==
    /\ pc = "exit" /\ iter = max_iter /\ max_iter >= 2
    /\ result.tag = "FailedToConverge"

\* C7: irr and xirr return what one run of halley from the caller's guess
\* returns for the callables of the schedule, errors included, and make
\* no second attempt.
C7_ReturnsHalleyOutcome ==
    (pc = "done" /\ api \in {"irr", "xirr"}) =>
        /\ ret = halley(unwrap_or(args.guess, DefaultGuess), args.obj,
                        unwrap_or(args.tolerance, DefaultTolerance),
                        unwrap_or(args.max_iter, DefaultMaxIter))
        /\ hcalls <= 1
        /\ (ret.tag # "Panic") => (hcalls = 1 /\ method = "halley" /\ ret = result)

\* irr hands a FailedToConverge of halley to its caller
C7_Witness ==
    /\ pc = "done" /\ api = "irr"
    /\ ret.tag = "FailedToConverge" /\ ret.x # unwrap_or(args.guess, DefaultGuess)

\* C8: irr and xirr return Ok or Err for every schedule, the empty one
\* included; they never abort.
C8_NeverAborts ==
    (pc = "done" /\ api \in {"irr", "xirr"}) => ret.tag # "Panic"

\* C9: a call with the inputs of a remembered earlier call returns what that
\* call returned, whatever ran in between.
C9_Deterministic ==
    (pc = "done" /\ memo.api = api /\ memo.args = args) => ret = memo.ret

\* a solver call whose inputs were seen before has returned after updates
C9_Witness ==
    /\ pc = "done" /\ memo.api = api /\ memo.args = args
    /\ api = "halley" /\ updates >= 1

----------------------------------------------------------------------------
(* Properties of round_with_mode                                           *)

Rounded == pin.fn = "round_with_mode" /\ pout.done
RFactor == from_int(10 ^ pin.dp)
RShifted == Mul(pin.v, RFactor)
RFloor == floor(RShifted)
RCeil == ceil(RShifted)
\* |diff - 0.5| <= epsilon with diff = shifted - floor(shifted)
AtMidpoint == Le(Abs(Sub(Sub(RShifted, RFloor), Half)), pin.eps)
FloorIsEven == (RFloor \div One) % 2 = 0

\* C10: at a midpoint HalfToEven returns floor if floor is even else ceil,
\* HalfTowardZero floor if shifted > 0 else ceil, HalfAwayFromZero ceil if
\* shifted > 0 else floor, each divided by 10^dp; 2.5 at dp 0 gives 2, 2, 3
\* and -2.5 gives -2, -2, -3.
C10_TieBreak ==
    (Rounded /\ AtMidpoint) =>
        /\ pin.mode = "HalfToEven" =>
              pout.val = Div(IF FloorIsEven THEN RFloor ELSE RCeil, RFactor)
        /\ pin.mode = "HalfTowardZero" =>
              pout.val = Div(IF RShifted > 0 THEN RFloor ELSE RCeil, RFactor)
        /\ pin.mode = "HalfAwayFromZero" =>
              pout.val = Div(IF RShifted > 0 THEN RCeil ELSE RFloor, RFactor)
        /\ (pin.v = 2500 /\ pin.dp = 0) =>
              /\ pin.mode \in {"HalfToEven", "HalfTowardZero"} => pout.val = 2000
              /\ pin.mode = "HalfAwayFromZero" => pout.val = 3000
        /\ (pin.v = -2500 /\ pin.dp = 0) =>
              /\ pin.mode \in {"HalfToEven", "HalfTowardZero"} => pout.val = -2000
              /\ pin.mode = "HalfAwayFromZero" => pout.val = -3000

\* an exact tie with a negative odd floor, rounded to even
C10_Witness ==
    /\ Rounded /\ AtMidpoint
    /\ pin.mode = "HalfToEven" /\ pin.v = -2500 /\ pin.dp = 0 /\ pin.eps = 0
    /\ pout.val = -2000

\* |diff_floor.abs() - 0.5| > epsilon: the scaled value is not at a midpoint
NotAtMidpoint == Gt(Abs(Sub(Abs(Sub(RShifted, RFloor)), Half)), pin.eps)

\* the integral neighbour nearest to the scaled value (an exact half, which
\* only a negative epsilon lets through, goes away from zero)
RNearest ==
    IF 2 * (RShifted - RFloor) < One THEN RFloor
    ELSE IF 2 * (RShifted - RFloor) > One THEN RCeil
    ELSE IF RShifted > 0 THEN RCeil ELSE RFloor

\* C11: away from a midpoint the three Half* modes return the nearest
\* integer, TowardZero floor if positive else ceil, AwayFromZero ceil if
\* positive else floor, ToNegativeInfinity floor and ToInfinity ceil, each
\* divided by 10^dp; 0.333 at dp 2 gives 0.33, but 0.34 under AwayFromZero
\* and ToInfinity.
C11_NonMidpointStability ==
    (Rounded /\ NotAtMidpoint) =>
        /\ pin.mode \in {"HalfToEven", "HalfAwayFromZero", "HalfTowardZero"} =>
              pout.val = Div(RNearest, RFactor)
        /\ pin.mode = "TowardZero" =>
              pout.val = Div(IF RShifted > 0 THEN RFloor ELSE RCeil, RFactor)
        /\ pin.mode = "AwayFromZero" =>
              pout.val = Div(IF RShifted > 0 THEN RCeil ELSE RFloor, RFactor)
        /\ pin.mode = "ToNegativeInfinity" => pout.val = Div(RFloor, RFactor)
        /\ pin.mode = "ToInfinity" => pout.val = Div(RCeil, RFactor)
        /\ (pin.v = 333 /\ pin.dp = 2) =>
              pout.val = IF pin.mode \in {"AwayFromZero", "ToInfinity"}
                         THEN 340 ELSE 330

\* 0.555 at dp 1 scales to 5.55, past the half: HalfTowardZero rounds it up
C11_Witness ==
    /\ Rounded /\ NotAtMidpoint
    /\ pin.v = 555 /\ pin.dp = 1 /\ pin.mode = "HalfTowardZero" /\ pin.eps = 1
    /\ pout.val = 600

\* C12: rounding is idempotent: rounding a result of round_with_mode again,
\* with the same dp, mode and epsilon, returns it unchanged.
C12_Idempotent ==
    (pin.fn = "round_with_mode_float" /\ pout.n = 2) => pout.val = pout.arg

\* C12, the particular case: a value that has at most dp decimals is
\* returned unchanged by every mode.
C12_TwoDecimalsUnchanged ==
    (pin.fn = "round_with_mode_float" /\ pout.n = 1 /\ pin.dp = 2
       /\ pin.v \in {bliteral(n, 2) : n \in FloatCents}) => pout.val = pin.v

RoundedDecimal == pin.fn = "round_with_mode_decimal" /\ pout.done

\* C13: for Decimal the result of round_with_mode is the same for every
\* epsilon, and it is what the epsilon-based procedure of the float
\* implementations yields with epsilon = 0 in exact arithmetic (as long as
\* the scaling by 10^dp stays within the range of the scalar).
C13_DecimalIgnoresEpsilon ==
    RoundedDecimal =>
        /\ \A e2 \in RoundEpsilons :
              round_with_mode_decimal(pin.v, pin.dp, pin.mode, e2) = pout.val
        /\ IsFinite(RShifted) =>
              pout.val = round_with_mode(pin.v, pin.dp, pin.mode, Zero)

\* -2.5 at dp 0 under HalfToEven with an epsilon wider than the whole unit
\* interval: the Decimal result is still the banker's -2
C13_Witness ==
    /\ RoundedDecimal
    /\ pin.v = -2500 /\ pin.dp = 0 /\ pin.mode = "HalfToEven" /\ pin.eps = 600
    /\ pout.val = -2000

----------------------------------------------------------------------------
(* Properties of xirr on schedules                                         *)

\* the rearrangements of a table that keep its first entry in place
TailPermutations(t) ==
    { [i \in 1..Len(t) |-> t[f[i]]] :
        f \in { g \in [1..Len(t) -> 1..Len(t)] :
                  /\ g[1] = 1
                  /\ \A i, j \in 1..Len(t) : g[i] = g[j] => i = j } }

XirrFloatReturned == pin.fn = "xirr_float" /\ pout.done

\* C14: the order of the entries after the first does not affect xirr: every
\* rearrangement that keeps the first entry returns the same Ok rate or the
\* same error with the same last_x and last_fx.
C14_OrderIrrelevant ==
    XirrFloatReturned =>
        \A p \in TailPermutations(pin.table) :
            xirr_float(p, pin.guess, pin.tolerance, pin.max_iter) = pout.val

\* the table with constant c added to every day offset
ShiftDates(t, c) == [i \in 1..Len(t) |-> <<t[i][1], t[i][2] + c>>]

\* constants added to the day offsets
DateShifts == {-10, 1, 365}

\* C15: xirr measures every entry from the first entry's day offset, in the
\* objective and in both derivatives, so adding one constant to every day
\* offset of the table leaves the result of xirr unchanged.
C15_ShiftInvariant ==
    (pc = "done" /\ api = "xirr") =>
        \A c \in DateShifts :
            ret = halley(unwrap_or(args.guess, DefaultGuess),
                         XnpvObj(ShiftDates(args.obj.table, c)),
                         unwrap_or(args.tolerance, DefaultTolerance),
                         unwrap_or(args.max_iter, DefaultMaxIter))

\* xirr has moved its estimate on a table whose first day offset is not 0
C15_Witness ==
    /\ pc = "done" /\ api = "xirr"
    /\ Len(args.obj.table) = 3 /\ args.obj.table[1][2] = 10
    /\ ret.tag \in {"Ok", "FailedToConverge"} /\ updates >= 1

\* C15 on f64 values: the same invariance
XirrFloatShiftInvariant ==
    XirrFloatReturned =>
        \A c \in DateShifts :
            xirr_float(ShiftDates(pin.table, c), pin.guess, pin.tolerance,
                       pin.max_iter) = pout.val

\* C16: an omitted parameter of xirr takes its documented default, each one
\* independently: the call returns what the call with guess = 0.1,
\* tolerance = 1e-5 and max_iter = 20 written out in its place returns.
C16_DocumentedDefaults ==
    XirrFloatReturned =>
        pout.val = xirr_float(pin.table,
                              Some(unwrap_or(pin.guess, bliteral(1, 1))),
                              Some(unwrap_or(pin.tolerance, bliteral(1, 5))),
                              Some(unwrap_or(pin.max_iter, DefaultMaxIter)))

----------------------------------------------------------------------------
(* Properties of the progressive tax                                       *)

\* the brackets of the table never decrease
Ascending(t) == \A i \in 1..(Len(t) - 1) : t[i][1] <= t[i + 1][1]

\* C17: progressive_tax returns None when a bracket is lower than the one
\* before it or the last bracket is not Decimal::MAX, and for every other
\* non-empty table Some(progressive_tax_unchecked(agi, deductions, table)).
C17_ValidatesRateTable ==
    (pin.fn = "progressive_tax" /\ pout.done) =>
        LET t == pin.rate_table
        IN IF ~Ascending(t) \/ t[Len(t)][1] # MaxV
           THEN pout.val = None
           ELSE pout.val = Some(progressive_tax_unchecked(pin.agi, pin.deductions, t))

\* a table with two equal brackets is accepted and taxed
C17_Witness ==
    /\ pin.fn = "progressive_tax" /\ pout.done
    /\ pin.rate_table = << <<10000, 100>>, <<10000, 150>>, <<MaxV, 300>> >>
    /\ pin.agi = 30000 /\ pin.deductions = 0
    /\ pout.val = Some(7000)

\* sum over the brackets from i on of max(min(T, b_i) - b_(i-1), 0) * r_i
RECURSIVE BracketSum(_, _, _)
BracketSum(T, t, i) ==
    IF i > Len(t) THEN 0
    ELSE LET lo   == IF i = 1 THEN 0 ELSE t[i - 1][1]
             hi   == IF T < t[i][1] THEN T ELSE t[i][1]
             part == IF hi - lo > 0 THEN hi - lo ELSE 0
         IN (part * t[i][2]) \div One + BracketSum(T, t, i + 1)

\* C18: for an ascending table progressive_tax_unchecked returns 0 when
\* agi <= deductions and otherwise the sum over all brackets i of
\* max(min(T, b_i) - b_(i-1), 0) * r_i with T = agi - deductions, b_0 = 0:
\* leaving the loop early changes nothing.
C18_BracketSum ==
    (pin.fn = "progressive_tax_unchecked" /\ pout.done /\ Ascending(pin.rate_table)) =>
        pout.val = IF pin.agi <= pin.deductions THEN 0
                   ELSE BracketSum(pin.agi - pin.deductions, pin.rate_table, 1)

\* an income that ends inside the second of three brackets: the loop has
\* left early and the tax is 10 * 0.10 + 8 * 0.20
C18_Witness ==
    /\ pin.fn = "progressive_tax_unchecked" /\ pout.done
    /\ pin.rate_table = << <<10000, 100>>, <<40000, 200>>, <<MaxV, 300>> >>
    /\ pin.agi = 30000 /\ pin.deductions = 12000
    /\ pout.val = 2600

----------------------------------------------------------------------------
(* Properties of the schedule generators                                   *)

\* the call has returned a schedule of at least one period, rounding enabled
RoundedSchedule(fn) ==
    pin.fn = fn /\ pout.pc = "done" /\ pin.round # None /\ pin.n >= 1

RECURSIVE SumField(_, _)
SumField(s, field) ==
    IF s = <<>> THEN 0
    ELSE SumField(SubSeq(s, 1, Len(s) - 1), field) + s[Len(s)][field]

\* C19: with rounding enabled and a non-empty slice the last period of
\* amort_schedule_into has remaining_balance 0 and a principal_payment equal
\* to the remaining_balance of the period before it (the principal when
\* there is one period), and the principal payments sum to the principal.
C19_AmortFullyRepaid ==
    RoundedSchedule("amort_schedule_into") =>
        LET n    == Len(pout.slice)
            last == pout.slice[n]
        IN /\ n = pin.n
           /\ last.remaining_balance = 0
           /\ last.principal_payment =
                 IF n = 1 THEN pin.principal ELSE pout.slice[n - 1].remaining_balance
           /\ SumField(pout.slice, "principal_payment") = pin.principal

\* three rounded periods whose last payment was adjusted by the leftover
C19_Witness ==
    /\ RoundedSchedule("amort_schedule_into")
    /\ pin.n = 3 /\ pin.rate = 105 /\ pin.pmt = -40123
    /\ pout.remaining_balance # 0
    /\ pout.slice[3].remaining_balance = 0

\* C20: with rounding enabled and a non-empty slice db_into and syd_into end
\* at the salvage value: the last remaining_book_value is salvage, the last
\* depreciation_expense takes up the difference to the book value before
\* it, and the depreciation expenses sum to cost - salvage.
C20_EndsAtSalvage ==
    (RoundedSchedule("db_into") \/ RoundedSchedule("syd_into")) =>
        LET n    == Len(pout.slice)
            last == pout.slice[n]
        IN /\ n = pin.n
           /\ last.remaining_book_value = pin.salvage
           /\ last.depreciation_expense =
                 (IF n = 1 THEN pin.cost ELSE pout.slice[n - 1].remaining_book_value)
                   - pin.salvage
           /\ SumField(pout.slice, "depreciation_expense") = pin.cost - pin.salvage

\* a rounded sum-of-years schedule whose loop ended off the salvage value
C20_Witness ==
    /\ RoundedSchedule("syd_into")
    /\ pin.n = 3 /\ pout.remain_bv # pin.salvage
    /\ pout.slice[3].remaining_book_value = pin.salvage

----------------------------------------------------------------------------
(* Properties of the percentage change                                     *)

\* the quotient (e - b) / |b| has an exact Decimal value
ExactChange ==
    pin.b # 0 /\ ((pin.e - pin.b) * One) % (IF pin.b < 0 THEN -pin.b ELSE pin.b) = 0

\* C21 as stated: pct_change(b, e) is None exactly when b = 0, and for
\* b # 0 applying the change to b gives e back.
C21_RoundTrip ==
    /\ (pin.fn = "pct_change" /\ pout.n >= 1) => ((pout.pct = None) <=> (pin.b = 0))
    /\ (pin.fn = "pct_change" /\ pout.n = 2) => pout.val = pin.e

\* C21: pct_change(b, e) is None exactly when b = 0 and a finite value
\* otherwise (no division by zero happens); applying the change to b gives
\* e back whenever the quotient (e - b) / |b| is exact, for positive and
\* negative b.
C21_RoundTripExact ==
    /\ (pin.fn = "pct_change" /\ pout.n >= 1) =>
          /\ (pout.pct = None) <=> (pin.b = 0)
          /\ pout.pct # None => IsFinite(pout.pct[1])
    /\ (pin.fn = "pct_change" /\ pout.n = 2 /\ ExactChange) => pout.val = pin.e

\* from -100 to 150: a change of +250 %, applied to -100 it gives 150 back
C21_Witness ==
    /\ pin.fn = "pct_change" /\ pout.n = 2 /\ ExactChange
    /\ pin.b = -100000 /\ pin.e = 150000
    /\ pout.pct = Some(2500) /\ pout.val = 150000

----------------------------------------------------------------------------
(* Properties of the iteration of the solvers                              *)

\* numerator and denominator of the Halley step at the current estimate,
\* written out from the objective and its derivatives
HalleyNumerator == Mul(Mul(Two, F(obj, x)), FPrime(obj, x))
HalleyDenominator ==
    Sub(Mul(Mul(Two, FPrime(obj, x)), FPrime(obj, x)),
        Mul(F(obj, x), FPrime2(obj, x)))

\* C22: an iteration that neither converges nor fails replaces x by
\* x - f(x) / f'(x) in newton_raphson and by x - numerator / denominator in
\* halley (numerator 2 f f', denominator 2 f'^2 - f f''); halley returns
\* DivideByZero exactly when the denominator is zero at an estimate with
\* |f(x)| >= tolerance inside the budget, and x is left as it was.
C22_UpdateRule ==
    [][ /\ (pc = "loop" /\ pc' = "eval" /\ method = "newton_raphson") =>
              x' = Sub(x, Div(F(obj, x), FPrime(obj, x)))
        /\ (pc = "loop" /\ pc' = "eval" /\ method = "halley") =>
              x' = Sub(x, Div(HalleyNumerator, HalleyDenominator))
        /\ (pc = "loop" /\ pc' = "exit" /\ method = "halley") =>
              /\ (result'.tag = "DivideByZero") <=>
                    /\ iter < max_iter
                    /\ Ge(Abs(F(obj, x)), tolerance)
                    /\ HalleyDenominator = Zero
              /\ x' = x
              /\ result'.x = x
      ]_vars

\* halley on x^2 - 2 from the guess 1: the first update has moved x to
\* 1 - (2 * (-1) * 2) / (2 * 4 - (-1) * 2) = 1.4
C22_Witness ==
    /\ pc = "eval" /\ method = "halley"
    /\ obj = PolyObj(<<-2000, 0, 1000>>) /\ guess = 1000
    /\ updates = 1 /\ x = 1400

\* the derivative of the objective, and the Halley denominator, are zero at x
FlatAt(v) ==
    /\ FPrime(obj, v) = Zero
    /\ step_halley(F(obj, v), FPrime(obj, v), FPrime2(obj, v))[2] = Zero

\* C23: the convergence test comes first: a call that leaves the loop
\* inside the budget at an estimate with |f(x)| < tolerance returns Ok(x),
\* whatever the derivatives are there; no derivative callable is invoked at
\* a converged estimate; a DivideByZero result has |last_fx| >= tolerance.
C23_ConvergenceTestFirst ==
    /\ (pc = "exit" /\ iter < max_iter /\ Lt(Abs(F(obj, x)), tolerance)) =>
          result = Ok(x)
    /\ \A v \in derived : ~Lt(Abs(F(obj, v)), tolerance)
    /\ (Returned /\ result.tag = "DivideByZero") =>
          /\ Ge(Abs(result.fx), tolerance)
          /\ result.x \in derived

\* Ok is returned at an estimate where f' and the Halley denominator are
\* zero, and no derivative was evaluated there
C23_Witness ==
    /\ pc = "exit" /\ result = Ok(x)
    /\ FlatAt(x) /\ x \notin derived

----------------------------------------------------------------------------
(* Properties of the derivatives of the net present value                  *)

NpvPrimeCall == pin.fn \in {"npv_prime_r", "npv_prime2_r"}
\* the exponent of the power that belongs to index t
NpvPrimeExponent(t) == IF pin.fn = "npv_prime_r" THEN t + 1 ELSE t + 2
\* the term-by-term sum the call is compared with
NpvPrimeTermSum ==
    IF pin.fn = "npv_prime_r" THEN pv_prime_sum(pin.rate, pin.flows)
    ELSE pv_prime2_sum(pin.rate, pin.flows)

\* o^k when it fits a significand, 0 when it does not
RECURSIVE FittingPower(_, _)
FittingPower(o, k) ==
    IF k = 0 THEN 1
    ELSE LET p == FittingPower(o, k - 1)
         IN IF p = 0 \/ p * o >= 2^SignificandBits THEN 0 ELSE p * o

RECURSIVE OddPart(_)
OddPart(a) == IF a % 2 = 0 THEN OddPart(a \div 2) ELSE a

\* every power of 1 + rate the call needs is a value of the scalar type
ExactPowers ==
    LET b == badd(bone, pin.rate)
    IN FittingPower(OddPart(IF b.m < 0 THEN -b.m ELSE b.m),
                    NpvPrimeExponent(Len(pin.flows))) > 0

\* the accumulator-based result is the term-by-term sum, and the running
\* power is the power of index t
AccumulatorIsTermSum ==
    /\ pout.t = Len(pin.flows) => pout.acc = NpvPrimeTermSum
    /\ pout.t < Len(pin.flows) =>
          pout.powf_acc = bpowf(badd(bone, pin.rate),
                                bfrom_int(NpvPrimeExponent(pout.t)))

\* C24 as stated: for every rate # -1 and every slice, npv_prime_r and
\* npv_prime2_r equal the sums of pv_prime_r and pv_prime2_r over the
\* entries, and the running power is (1 + rate)^(t+1), respectively
\* (1 + rate)^(t+2), at index t.
C24_AccumulatorEqualsSum == NpvPrimeCall => AccumulatorIsTermSum

\* C24: the same whenever the powers of 1 + rate up to the length of the
\* slice are exactly representable, so that neither powf nor the running
\* product rounds.
C24_AccumulatorEqualsSumExact == (NpvPrimeCall /\ ExactPowers) => AccumulatorIsTermSum

\* npv_prime2_r has run over three entries at the rate 0.25
C24_Witness ==
    /\ pin.fn = "npv_prime2_r" /\ ExactPowers
    /\ pin.rate = bliteral(25, 2) /\ Len(pin.flows) = 3 /\ pout.t = 3
    /\ pout.acc.m # 0

\* the book value before period i of the schedule written so far
BookValueBefore(i) ==
    IF i = 1 THEN pin.cost ELSE pout.slice[i - 1].remaining_book_value

\* C25: for cost >= salvage >= 0 and factor >= 0, every period written by
\* db_into has remaining_book_value >= salvage and depreciation_expense
\* >= 0, and a period that starts at the salvage value has expense 0.
C25_NeverBelowSalvage ==
    (/\ pin.fn = "db_into"
     /\ pin.cost >= pin.salvage /\ pin.salvage >= 0
     /\ unwrap_or(pin.factor, Two) >= 0) =>
        \A i \in 1..Len(pout.slice) :
            /\ pout.slice[i].remaining_book_value >= pin.salvage
            /\ pout.slice[i].depreciation_expense >= 0
            /\ BookValueBefore(i) = pin.salvage =>
                  pout.slice[i].depreciation_expense = 0

\* the default factor 2 over a life of two periods: the first expense is
\* capped and takes the book value to salvage, the second is 0
C25_Witness ==
    /\ pin.fn = "db_into" /\ pout.pc = "done" /\ pin.n = 2
    /\ pin.factor = None /\ pin.cost = 10000 /\ pin.salvage = 1000
    /\ pout.slice[1].depreciation_expense = 9000
    /\ pout.slice[1].remaining_book_value = pin.salvage
    /\ pout.slice[2].depreciation_expense = 0

\* the call that just returned resumed the remembered, failed call
Resumed ==
    /\ pc = "done" /\ api \in {"newton_raphson", "halley"}
    /\ memo.api = api /\ memo.ret.tag = "FailedToConverge"
    /\ args.obj = memo.args.obj
    /\ args.tolerance = memo.args.tolerance
    /\ args.guess = Some(memo.ret.x)

\* C26: a call with budget a that returned FailedToConverge{last_x, ..},
\* followed by a call of the same solver with guess = last_x and budget b,
\* ends with the result of one call from the original guess with budget
\* a + b.
C26_ResumeIsLongerRun ==
    Resumed =>
        LET a == memo.args.max_iter[1]
            b == args.max_iter[1]
            g == memo.args.guess[1]
            t == args.tolerance[1]
        IN ret = IF api = "halley" THEN halley(g, args.obj, t, a + b)
                 ELSE newton_raphson(g, args.obj, t, a + b)

\* halley on x^2 - 2 failed after one iteration away from the guess and the
\* resumed call converged
C26_Witness ==
    /\ Resumed /\ api = "halley"
    /\ memo.args.max_iter = Some(1) /\ memo.ret.x # memo.args.guess[1]
    /\ args.max_iter = Some(2)
    /\ ret.tag = "Ok"

\* |f(v)| >= tolerance, f'(v) = 0 and f(v) * f''(v) # 0
ZeroSlopeAt(v) ==
    /\ Ge(Abs(F(obj, v)), tolerance)
    /\ FPrime(obj, v) = Zero
    /\ Mul(F(obj, v), FPrime2(obj, v)) # Zero

\* C27: in halley, at an estimate x with |f(x)| >= tolerance, f'(x) = 0 and
\* f(x) * f''(x) # 0 the numerator is 0 and the denominator is not, the
\* estimate stays at x in every remaining iteration and the call ends with
\* FailedToConverge{last_x = x, last_fx = f(x)}.
C27_ZeroSlopeStalls ==
    [][ (method = "halley" /\ pc \in {"loop", "eval"} /\ ZeroSlopeAt(x)) =>
           /\ HalleyNumerator = Zero /\ HalleyDenominator # Zero
           /\ x' = x
           /\ pc' = "exit" => result' = FailedToConverge(x, F(obj, x))
      ]_vars

\* halley on x^2 + 1 from the guess 0 has used its whole budget of three
\* iterations without moving
C27_Witness ==
    /\ pc = "exit" /\ method = "halley" /\ ZeroSlopeAt(guess)
    /\ max_iter = 3 /\ updates = 3
    /\ result = FailedToConverge(guess, F(obj, guess)) /\ result.fx # Zero

----------------------------------------------------------------------------
(* Properties of round_with_mode on f32/f64 values                         *)

RoundedFloat == pin.fn = "round_with_mode_float" /\ pout.n >= 1
FFactor == bfrom_int(10 ^ pin.dp)
FShifted == bmul(pout.arg, FFactor)

\* |a - b| * 10^dp < 1, compared exactly
CloserThanStep(a, b, dp) ==
    LET lo == IF a.e <= b.e THEN a.e ELSE b.e
        d  == a.m * 2^(a.e - lo) - b.m * 2^(b.e - lo)
        ad == IF d < 0 THEN -d ELSE d
    IN IF lo >= 0 THEN ad * 10^dp < 1 ELSE ad * 10^dp < 2^(-lo)

\* the result, scaled back, is one of the two integers next to the value
OnGrid == bmul(pout.val, FFactor) \in {bfloor(FShifted), bceil(FShifted)}

\* the result lies between those of the two directed modes
BetweenDirected ==
    /\ ~bgt(round_with_mode_float(pout.arg, pin.dp, "ToNegativeInfinity", pin.eps),
            pout.val)
    /\ ~bgt(pout.val,
            round_with_mode_float(pout.arg, pin.dp, "ToInfinity", pin.eps))

\* the result is less than one step away from the value
WithinStep == CloserThanStep(pout.val, pout.arg, pin.dp)

\* C28: for every mode, value, dp and epsilon the result times 10^dp is
\* floor(shifted) or ceil(shifted), the result lies between the results of
\* ToNegativeInfinity and ToInfinity, and it differs from the value by less
\* than 10^-dp.
C28_NeighbouringGridPoint ==
    RoundedFloat => (OnGrid /\ BetweenDirected /\ WithinStep)

\* the mode that mirrors a mode under negation of the value
MirrorMode(mode) ==
    CASE mode = "ToNegativeInfinity" -> "ToInfinity"
      [] mode = "ToInfinity" -> "ToNegativeInfinity"
      [] OTHER -> mode

----------------------------------------------------------------------------
(* irr on a schedule whose only non-zero amount is the time-zero entry     *)

\* irr has returned for a schedule cf_0, 0, ..., 0 with |cf_0| >= tolerance
\* and max_iter >= 1
FlatIrrReturned ==
    /\ api = "irr" /\ pc = "done"
    /\ obj.flows \in FlatSchedules
    /\ Ge(Abs(obj.flows[1]), tolerance)
    /\ max_iter >= 1

\* C30: irr on a schedule whose only non-zero amount is cf_0, with
\* |cf_0| >= tolerance and max_iter >= 1, returns
\* DivideByZero{last_x = guess, last_fx = cf_0}.
C30_FlatScheduleDividesByZero ==
    FlatIrrReturned => ret = DivideByZero(guess, obj.flows[1])

\* the same away from the guess -1, where 1 + guess = 0
FlatAwayFromMinusOne ==
    (FlatIrrReturned /\ Add(One, guess) # Zero)
        => ret = DivideByZero(guess, obj.flows[1])

\* at the guess -1 the derivative terms are 0 / 0
FlatAtMinusOne ==
    (FlatIrrReturned /\ Add(One, guess) = Zero)
        => /\ ret.tag = "FailedToConverge"
           /\ IsNaN(ret.x)

====
